---- MODULE Spec2Model ----
(***************************************************************************)
(* The thread-safe event bridge of the native audio bindings.              *)
(*                                                                         *)
(* AudioTeeWrapper (src/native/cpp/audiotee_napi.cpp) and                  *)
(* AudioRecorderWrapper (src/native/cpp/coreaudio_napi.cpp) are the same   *)
(* code up to names: a session handle, a mutex, a std::queue of AudioEvent *)
(* and an atomic destroyed flag.  Capture callbacks (OnData, OnEvent,      *)
(* OnMetadata) run on threads of the capture session and push events; the  *)
(* JavaScript thread runs the constructor, start/stop/isRunning,           *)
(* processEvents and, at finalization, the destructor.                     *)
(*                                                                         *)
(* The capture session behind the handle is modelled after                 *)
(* src/native/windows/windows_bridge.cpp (audio_create .. audio_is_running)*)
(* with the capture object itself (WasapiCapture, the Swift sessions) kept *)
(* to the contract the specification gives for it.                         *)
(***************************************************************************)
EXTENDS Integers, Sequences, FiniteSets, TLC

(* ----------------------------- bounds --------------------------------- *)

\* Number of capture threads that deliver callbacks.
NumProducers == 2

\* Total number of callback invocations in one behaviour.
MaxCalls == 3

\* Number of permission requests in one behaviour.
MaxRequests == 2

Producers == 1..NumProducers

Requests == 1..MaxRequests

\* Number of threads that call the Windows functions, and of calls they
\* make, all together, to those that initialize COM.
NumThreads == 2

MaxComCalls == 4

\* Longest list of capture sessions the session enumerator reports.
MaxSessions == 3

Threads == 1..NumThreads

\* Largest number of devices an enumeration reports.
MaxDevices == 2

(* ------------------------- values of the code -------------------------- *)

\* A null pointer argument (const char* message / encoding).
NullPtr == "<nullptr>"

\* A POD field of AudioEvent that the callback did not assign.
Unset == -1

\* handle_ values: nullptr, or the one session audio*_create returned.
NoHandle == "nullptr"
TheSession == "session"

\* Status codes a capture session reports (0 = success).
StatusCodes == {0, -1, 2}

VARIABLES
    handle_,            \* AudioTeeHandle handle_
    eventMutex_,        \* std::mutex eventMutex_: "unlocked" | "locked"
    eventQueue_,        \* std::queue<AudioEvent> eventQueue_
    isDestroyed_,       \* std::atomic<bool> isDestroyed_
    sessionAlive,       \* the capture object exists (created, not deleted)
    streamRunning,      \* the capture object's running state
    hostPc,             \* position of the JavaScript thread
    events,             \* DrainEvents' local vector
    hostRet,            \* value the last host call returned
    hostError,          \* exception the last host call left pending
    cbPc,               \* position of each capture thread
    cbEvent,            \* the AudioEvent each callback built
    calls,              \* history: callback invocations so far
    issued,             \* history: per thread, ids handed to QueueEvent
    pending,            \* history: arguments of the callbacks whose event no
                        \*          drain has returned yet
    accepted,           \* history: ids in the order of the pushes
    drained,            \* history: ids in the order DrainEvents returned them
    drainSnapshot,      \* history: the queue when DrainEvents took the lock
    discarded,          \* history: callbacks that returned at the flag check
    lateAccepted,       \* history: ids pushed while isDestroyed_ was set
    destroyCalls,       \* history: calls of the session's destroy
    flagAtDestroy,      \* history: isDestroyed_ when destroy was called
    deletedWhileRunning,\* history: the capture object was deleted running
    useAfterFree,       \* history: a callback touched the freed wrapper
    forwarded,          \* history: what the last start passed to the session
    jsThread,           \* the permission request the JavaScript thread is in
    request,            \* per request: position, context passed, decision
    contexts,           \* the heap PermissionRequestContext objects
    tsfns,              \* the thread-safe functions: threads, queued calls
    native,             \* per request: the thread in the native callback
    hostCallbacks,      \* per host callback: the values it was called with
    deliveryOrder,      \* history: host callbacks in the order they ran
    releaseCalls,       \* history: per thread-safe function, Release calls
    deleteCalls,        \* history: per context, delete calls
    permFault,          \* history: a freed context or function was used
    deviceHeap,         \* what the enumeration collaborator allocated
    deviceOutcome,      \* history: what the collaborator last returned
    deviceRet,          \* device list or id the last device call returned
    comInitialized,     \* per thread: the thread_local flag
    coInitCalls,        \* history: per thread, what CoInitializeEx returned
    ensureCalls,        \* history: per thread, EnsureComInitialized calls
    micResult,          \* the last mic_activity_get_active_processes call
    facadeRet,          \* value the last module-level function returned
    facadeError         \* exception the last module-level function threw

wrapperVars == <<handle_, eventMutex_, eventQueue_, isDestroyed_>>
sessionVars == <<sessionAlive, streamRunning>>
hostVars    == <<hostPc, events, hostRet, hostError>>
cbVars      == <<cbPc, cbEvent>>
historyVars == <<calls, issued, pending, accepted, drained, drainSnapshot,
                 discarded,
                 lateAccepted, destroyCalls, flagAtDestroy,
                 deletedWhileRunning, useAfterFree>>
configVars  == <<forwarded>>
bridgeVars  == <<wrapperVars, sessionVars, hostVars, cbVars, historyVars,
                 configVars>>
permVars    == <<jsThread, request, contexts, tsfns, native, hostCallbacks,
                 deliveryOrder, releaseCalls, deleteCalls, permFault>>
deviceVars  == <<deviceHeap, deviceOutcome, deviceRet>>
facadeVars  == <<permVars, deviceVars, facadeRet, facadeError>>
comVars     == <<comInitialized, coInitCalls, ensureCalls>>
micVars     == <<micResult>>
vars == <<bridgeVars, facadeVars, comVars, micVars>>

(* ------------------------------ helpers -------------------------------- *)

\* The ids of a sequence of events.
Ids(q) == [i \in 1..Len(q) |-> q[i].id]

\* The subsequence of ids that thread t issued.
FromThread(ids, t) == SelectSeq(ids, LAMBDA x : x[1] = t)

\* An AudioEvent as declared: every field, the unassigned PODs Unset and the
\* unassigned strings empty.  id is the history tag of the invocation.
BlankEvent(id) ==
    [id |-> id, type |-> Unset, data |-> <<>>, message |-> "",
     sampleRate |-> Unset, channelsPerFrame |-> Unset,
     bitsPerChannel |-> Unset, isFloat |-> Unset, encoding |-> ""]

NoEvent == BlankEvent(<<0, 0>>)

\* The arguments of one callback invocation, every parameter of the three
\* signatures; the ones the invoked callback does not have stay blank.
BlankArgs(id) ==
    [id |-> id, callback |-> "", data |-> <<>>, eventType |-> Unset,
     message |-> "", sampleRate |-> Unset, channelsPerFrame |-> Unset,
     bitsPerChannel |-> Unset, isFloat |-> FALSE, encoding |-> ""]

\* int32_t, the type of a status code.
INT32_MAX == 2147483647
INT32_MIN == -2147483647 - 1

\* The character of one decimal digit.
DigitChar(d) == <<"0", "1", "2", "3", "4", "5", "6", "7", "8", "9">>[d + 1]

\* The decimal digits of a non-negative number, most significant first.
RECURSIVE DecimalDigits(_)
DecimalDigits(n) ==
    IF n < 10 THEN <<DigitChar(n)>>
    ELSE DecimalDigits(n \div 10) \o <<DigitChar(n % 10)>>

\* Mutant: the sign is not written.
to_string_Unsigned(n) ==
    IF n >= 0 THEN DecimalDigits(n)
    ELSE LET last == (10 - (n % 10)) % 10
             rest == -((n + last) \div 10)
         IN  (IF rest = 0 THEN <<>> ELSE DecimalDigits(rest))
                \o <<DigitChar(last)>>

\* std::to_string(int): the characters of the value in decimal, "-" first for
\* a negative one.  The magnitude of a negative value is taken digit by digit,
\* INT32_MIN has no int32_t negation.
to_string(n) ==
    IF n >= 0 THEN DecimalDigits(n)
    ELSE LET last == (10 - (n % 10)) % 10
             rest == -((n + last) \div 10)
         IN  <<"-">> \o (IF rest = 0 THEN <<>> ELSE DecimalDigits(rest))
                \o <<DigitChar(last)>>

\* A pending JavaScript exception: the throw site, and the message as the
\* sequence of its literal text and the characters appended to it.
JsError(name, message) == [name |-> name, message |-> message]

NoError == JsError("none", <<>>)

\* A permission request not made yet, a context not allocated, a thread-safe
\* function not created, a native callback not invoked.
NoRequest == [pc |-> "none", context |-> 0, decision |-> "undecided"]
NoContext == [state |-> "unallocated", tsfn |-> 0]
NoTsfn == [state |-> "none", threads |-> 0, queue |-> <<>>, callback |-> 0]
NoNative == [pc |-> "none", granted |-> FALSE, context |-> 0]

\* JavaScript values as the option parsing sees them: the type the Is*
\* tests look at and the value the As<>() conversions read.  Numbers are
\* doubles, kept in thousandths; "absent" is a property the object lacks.
JsValue(type, num, bool, str, items) ==
    [type |-> type, num |-> num, nan |-> FALSE, bool |-> bool, str |-> str,
     items |-> items]

JsAbsent == JsValue("absent", 0, FALSE, "", <<>>)

JsUndefined == JsValue("undefined", 0, FALSE, "", <<>>)

JsNumber(thousandths) == JsValue("number", thousandths, FALSE, "", <<>>)

JsNaN == [JsValue("number", 0, FALSE, "", <<>>) EXCEPT !.nan = TRUE]

JsBoolean(b) == JsValue("boolean", 0, b, "", <<>>)

JsString(str) == JsValue("string", 0, FALSE, str, <<>>)

JsArray(items) == JsValue("array", 0, FALSE, "", items)

\* An options object without properties.
EmptyOptions ==
    [sampleRate |-> JsAbsent, chunkDurationMs |-> JsAbsent, mute |-> JsAbsent,
     stereo |-> JsAbsent, includeProcesses |-> JsAbsent,
     excludeProcesses |-> JsAbsent, deviceId |-> JsAbsent, gain |-> JsAbsent]

\* info[0] of a start call: whether it is an object, and its properties.
StartArg(isObject, options) == [isObject |-> isObject, options |-> options]

\* A pointer and count pair handed to the session: nullptr, or the vector's
\* data.
NullList == [null |-> TRUE, data |-> <<>>, count |-> 0]

\* The arguments of the session's start after the handle; a field the
\* called function does not have is left at its blank.
BlankConfig ==
    [sampleRate |-> 0, chunkDurationMs |-> 0, mute |-> FALSE, isMono |-> FALSE,
     includeProcesses |-> NullList, excludeProcesses |-> NullList,
     deviceUID |-> NullPtr, gain |-> 0]

NotForwarded ==
    [api |-> "none", arg |-> StartArg(FALSE, EmptyOptions),
     config |-> BlankConfig]

\* Pointers of the device functions: nullptr, the device array, the three
\* strings of each record, and the string of a default-device query.
NullHandle == 0

BufferHandle == 1

TextHandle(i, k) == 3 * (i - 1) + k + 1

UidHandle == 3 * MaxDevices + 2

Handles == 1..UidHandle

\* A heap block: whether the collaborator allocated it, how often it was
\* freed, and what it holds while it is live.
NoBlock == [allocated |-> FALSE, frees |-> 0, content |-> <<>>]

EmptyHeap == [h \in Handles |-> NoBlock]

\* What a collaborator call gave back: status, *devices, *count and the
\* array behind *devices for an enumeration, the char* for a default query.
NoOutcome == [status |-> 0, devices |-> NullHandle, count |-> 0,
              buffer |-> <<>>, uid |-> NullHandle, text |-> <<>>]

\* What the host got: a sequence of device objects, or an id, or null.
NoDeviceRet == [op |-> "none", list |-> <<>>, isNull |-> FALSE, id |-> <<>>]

\* Values of the output locations of mic_activity_get_active_processes: a
\* null pointer, a pointer the caller's variable held before the call, or
\* an array the call allocated.
MicNull == [null |-> TRUE, stale |-> FALSE, data |-> <<>>]
MicStale == [null |-> FALSE, stale |-> TRUE, data |-> <<>>]
MicArray(data) == [null |-> FALSE, stale |-> FALSE, data |-> data]

\* A C string of an output array: null, or its bytes.
NullStr == [null |-> TRUE, bytes |-> <<>>]
CStr(bytes) == [null |-> FALSE, bytes |-> bytes]

\* Which output pointers a caller passes non-null.
AllOutputs == [pids |-> TRUE, names |-> TRUE, bundleIds |-> TRUE,
               count |-> TRUE]

\* The caller's four variables, zeroed before the call or left as they were.
ZeroedOutputs == [pids |-> MicNull, names |-> MicNull, bundleIds |-> MicNull,
                  count |-> 0]
StaleOutputs == [pids |-> MicStale, names |-> MicStale,
                 bundleIds |-> MicStale, count |-> 7]

\* What the system answers during one call: the first COM step that fails
\* ("none" if all succeed), the sessions of the enumerator, and which
\* allocation fails ("none" if all succeed).
MicEnv(fails, sessions, malloc) ==
    [fails |-> fails, sessions |-> sessions, malloc |-> malloc]

NoMicCall == [args |-> AllOutputs, prior |-> ZeroedOutputs,
              env |-> MicEnv("none", <<>>, "none")]

NoMicResult == [op |-> "none", call |-> NoMicCall, ret |-> 0,
                out |-> ZeroedOutputs]

(* ------------------------------ Init ----------------------------------- *)

Init ==
    /\ handle_ = NoHandle
    /\ eventMutex_ = "unlocked"
    /\ eventQueue_ = <<>>
    /\ isDestroyed_ = FALSE
    /\ sessionAlive = FALSE
    /\ streamRunning = FALSE
    /\ hostPc = "new"
    /\ events = <<>>
    /\ hostRet = [op |-> "none", val |-> <<>>]
    /\ hostError = NoError
    /\ cbPc = [t \in Producers |-> "idle"]
    /\ cbEvent = [t \in Producers |-> NoEvent]
    /\ calls = 0
    /\ issued = [t \in Producers |-> <<>>]
    /\ pending = {}
    /\ accepted = <<>>
    /\ drained = <<>>
    /\ drainSnapshot = <<>>
    /\ discarded = 0
    /\ lateAccepted = <<>>
    /\ destroyCalls = 0
    /\ flagAtDestroy = TRUE
    /\ deletedWhileRunning = FALSE
    /\ useAfterFree = FALSE
    /\ forwarded = NotForwarded
    /\ jsThread = 0
    /\ request = [r \in Requests |-> NoRequest]
    /\ contexts = [a \in Requests |-> NoContext]
    /\ tsfns = [f \in Requests |-> NoTsfn]
    /\ native = [r \in Requests |-> NoNative]
    /\ hostCallbacks = [r \in Requests |-> <<>>]
    /\ deliveryOrder = <<>>
    /\ releaseCalls = [f \in Requests |-> 0]
    /\ deleteCalls = [a \in Requests |-> 0]
    /\ permFault = FALSE
    /\ deviceHeap = EmptyHeap
    /\ deviceOutcome = NoOutcome
    /\ deviceRet = NoDeviceRet
    /\ comInitialized = [t \in Threads |-> FALSE]
    /\ coInitCalls = [t \in Threads |-> <<>>]
    /\ ensureCalls = [t \in Threads |-> 0]
    /\ micResult = NoMicResult
    /\ facadeRet = [op |-> "none", val |-> "undefined"]
    /\ facadeError = NoError

(* --------------------------- constructor ------------------------------- *)

\* What audiotee_create / coreaudio_create may return: a session or null.
CreateResults == {TheSession, NoHandle}

\* AudioTeeWrapper::AudioTeeWrapper: handle_ = audiotee_create(..., this);
\* a null handle throws "Failed to create AudioTee session".
Constructor(h) ==
    /\ hostPc = "new"
    /\ handle_' = h
    /\ sessionAlive' = (h # NoHandle)
    /\ hostError' = IF h = NoHandle THEN JsError("CreationError",
                          <<"Failed to create AudioTee session">>) ELSE NoError
    /\ hostPc' = IF h = NoHandle THEN "failed" ELSE "idle"
    /\ UNCHANGED <<facadeVars, comVars, micVars, configVars,
                   eventMutex_, eventQueue_, isDestroyed_, streamRunning,
                   events, hostRet, cbVars, historyVars>>

(* ----------------------------- callbacks ------------------------------- *)

\* The capture session calls back only while it exists.
CallbackMayFire(t) ==
    /\ sessionAlive
    /\ cbPc[t] = "idle"
    /\ calls < MaxCalls

\* Mutant: the callbacks do not test the flag.
IsDestroyedLoad_Unchecked == {FALSE}

\* The values "if (self->isDestroyed_)" can load.  The load is atomic; from a
\* wrapper whose storage is released it is a read of freed memory.
IsDestroyedLoad == IF hostPc = "freed" THEN BOOLEAN ELSE {isDestroyed_}

\* History tag of the event thread t builds next: the thread and the event's
\* number among those the thread handed to QueueEvent.
NextId(t) == <<t, Len(issued[t]) + 1>>

\* Mutant: the flag is read under the queue mutex.
CallbackEntry_LockedCheck(t, args, event) ==
    /\ CallbackMayFire(t)
    /\ eventMutex_ = "unlocked"
    /\ calls' = calls + 1
    /\ useAfterFree' = (useAfterFree \/ hostPc = "freed")
    /\ \E destroyed \in IsDestroyedLoad :
          IF destroyed
            THEN /\ discarded' = discarded + 1
                 /\ UNCHANGED <<cbVars, issued, pending>>
            ELSE /\ cbEvent' = [cbEvent EXCEPT ![t] = event]
                 /\ cbPc' = [cbPc EXCEPT ![t] = "QueueEvent_lock"]
                 /\ issued' = [issued EXCEPT ![t] = Append(@, event.id)]
                 /\ pending' = pending \cup {args}
                 /\ UNCHANGED discarded
    /\ UNCHANGED <<facadeVars, comVars, micVars, configVars,
                   wrapperVars, sessionVars, hostVars, accepted, drained,
                   drainSnapshot, lateAccepted, destroyCalls, flagAtDestroy,
                   deletedWhileRunning>>

\* Common entry of the three callbacks: the flag check, then the event is
\* built and handed to QueueEvent.
CallbackEntry(t, args, event) ==
    /\ CallbackMayFire(t)
    /\ calls' = calls + 1
    /\ useAfterFree' = (useAfterFree \/ hostPc = "freed")
    /\ \E destroyed \in IsDestroyedLoad :
          IF destroyed
            THEN /\ discarded' = discarded + 1
                 /\ UNCHANGED <<cbVars, issued, pending>>
            ELSE /\ cbEvent' = [cbEvent EXCEPT ![t] = event]
                 /\ cbPc' = [cbPc EXCEPT ![t] = "QueueEvent_lock"]
                 /\ issued' = [issued EXCEPT ![t] = Append(@, event.id)]
                 /\ pending' = pending \cup {args}
                 /\ UNCHANGED discarded
    /\ UNCHANGED <<facadeVars, comVars, micVars, configVars,
                   wrapperVars, sessionVars, hostVars, accepted, drained,
                   drainSnapshot, lateAccepted, destroyCalls, flagAtDestroy,
                   deletedWhileRunning>>

\* Mutant: a chunk of length 0 is not forwarded.
OnData_SkipEmpty(t, data) ==
    IF data = <<>>
      THEN /\ CallbackMayFire(t)
           /\ calls' = calls + 1
           /\ UNCHANGED <<facadeVars, comVars, micVars, configVars,
                          wrapperVars, sessionVars, hostVars, cbVars, issued,
                          pending, accepted, drained, drainSnapshot, discarded,
                          lateAccepted, destroyCalls, flagAtDestroy,
                          deletedWhileRunning, useAfterFree>>
      ELSE CallbackEntry(t,
                         [BlankArgs(NextId(t)) EXCEPT
                                 !.callback = "OnData", !.data = data],
                         [BlankEvent(NextId(t)) EXCEPT
                                 !.type = 0, !.data = data])

\* AudioTeeWrapper::OnData
OnData(t, data) ==
    CallbackEntry(t,
                  [BlankArgs(NextId(t)) EXCEPT
                          !.callback = "OnData", !.data = data],
                  [BlankEvent(NextId(t)) EXCEPT
                          !.type = 0, !.data = data])

\* Mutant: the session's event type is stored as it came.
OnEvent_NoRemap(t, eventType, message) ==
    CallbackEntry(t,
                  [BlankArgs(NextId(t)) EXCEPT
                          !.callback = "OnEvent", !.eventType = eventType,
                          !.message = message],
                  [BlankEvent(NextId(t)) EXCEPT
                          !.type = eventType,
                          !.message = IF message # NullPtr THEN message ELSE @])

\* AudioTeeWrapper::OnEvent: the session's 0=start, 1=stop, 2=error become
\* 1, 2, 3; a null message leaves event.message empty.
OnEvent(t, eventType, message) ==
    CallbackEntry(t,
                  [BlankArgs(NextId(t)) EXCEPT
                          !.callback = "OnEvent", !.eventType = eventType,
                          !.message = message],
                  [BlankEvent(NextId(t)) EXCEPT
                          !.type = eventType + 1,
                          !.message = IF message # NullPtr THEN message ELSE @])

\* AudioTeeWrapper::OnMetadata
OnMetadata(t, sampleRate, channelsPerFrame, bitsPerChannel, isFloat, encoding) ==
    CallbackEntry(t,
                  [BlankArgs(NextId(t)) EXCEPT
                          !.callback = "OnMetadata",
                          !.sampleRate = sampleRate,
                          !.channelsPerFrame = channelsPerFrame,
                          !.bitsPerChannel = bitsPerChannel,
                          !.isFloat = isFloat, !.encoding = encoding],
                  [BlankEvent(NextId(t)) EXCEPT
                          !.type = 4,
                          !.sampleRate = sampleRate,
                          !.channelsPerFrame = channelsPerFrame,
                          !.bitsPerChannel = bitsPerChannel,
                          !.isFloat = IF isFloat THEN 1 ELSE 0,
                          !.encoding = IF encoding # NullPtr THEN encoding ELSE ""])

\* Mutant: the queue is touched without taking the mutex.
MutexAvailable_NoLock == TRUE

\* std::lock_guard<std::mutex> lock(eventMutex_) can be taken.
MutexAvailable == eventMutex_ = "unlocked"

\* Mutant: the event is put at the front.
QueuePush_Front(q, event) == <<event>> \o q

\* eventQueue_.push(std::move(event))
QueuePush(q, event) == Append(q, event)

\* Mutant: QueueEvent goes on to the push whoever holds the mutex.
QueueEvent_Lock_Unguarded(t) ==
    /\ cbPc[t] = "QueueEvent_lock"
    /\ eventMutex_' = "locked"
    /\ cbPc' = [cbPc EXCEPT ![t] = "QueueEvent_push"]
    /\ useAfterFree' = (useAfterFree \/ hostPc = "freed")
    /\ UNCHANGED <<facadeVars, comVars, micVars, configVars,
                   handle_, eventQueue_, isDestroyed_, sessionVars, hostVars,
                   cbEvent, calls, issued, pending,
                   accepted, drained, drainSnapshot,
                   discarded, lateAccepted, destroyCalls, flagAtDestroy,
                   deletedWhileRunning>>

\* AudioTeeWrapper::QueueEvent, the lock_guard's constructor.
QueueEvent_Lock(t) ==
    /\ cbPc[t] = "QueueEvent_lock"
    /\ MutexAvailable
    /\ eventMutex_' = "locked"
    /\ cbPc' = [cbPc EXCEPT ![t] = "QueueEvent_push"]
    /\ useAfterFree' = (useAfterFree \/ hostPc = "freed")
    /\ UNCHANGED <<facadeVars, comVars, micVars, configVars,
                   handle_, eventQueue_, isDestroyed_, sessionVars, hostVars,
                   cbEvent, calls, issued, pending,
                   accepted, drained, drainSnapshot,
                   discarded, lateAccepted, destroyCalls, flagAtDestroy,
                   deletedWhileRunning>>

\* AudioTeeWrapper::QueueEvent, the push and the lock_guard's destructor; the
\* callback returns.
QueueEvent_Push(t) ==
    /\ cbPc[t] = "QueueEvent_push"
    /\ eventQueue_' = QueuePush(eventQueue_, cbEvent[t])
    /\ eventMutex_' = "unlocked"
    /\ cbPc' = [cbPc EXCEPT ![t] = "idle"]
    /\ cbEvent' = [cbEvent EXCEPT ![t] = NoEvent]
    /\ accepted' = Append(accepted, cbEvent[t].id)
    /\ lateAccepted' = IF isDestroyed_ THEN Append(lateAccepted, cbEvent[t].id)
                                       ELSE lateAccepted
    /\ useAfterFree' = (useAfterFree \/ hostPc = "freed")
    /\ UNCHANGED <<facadeVars, comVars, micVars, configVars,
                   handle_, isDestroyed_, sessionVars, hostVars, calls, issued,
                   pending,
                   drained, drainSnapshot, discarded, destroyCalls,
                   flagAtDestroy, deletedWhileRunning>>

(* ------------------------ the capture session -------------------------- *)

\* The capture object's Start: the status it reports, and the stream runs
\* when the status is 0.
Capture_Start(status) ==
    streamRunning' = (streamRunning \/ status = 0)

\* The capture object's Stop: the stream is not running afterwards, whatever
\* status is reported.
Capture_Stop ==
    streamRunning' = FALSE

\* Deleting the capture object ends its threads: it returns when no callback
\* is in flight.
CallbacksQuiesced == \A t \in Producers : cbPc[t] = "idle"

\* audio_start_system_audio / audio_start_microphone: -1 for a null handle,
\* else the capture object's status.
audio_start(handle, status) == IF handle = NoHandle THEN -1 ELSE status

\* audio_stop: -1 for a null handle, else the capture object's status.
audio_stop(handle, status) == IF handle = NoHandle THEN -1 ELSE status

\* audio_is_running: false for a null handle, else the capture's state.
audio_is_running(handle) == IF handle = NoHandle THEN FALSE ELSE streamRunning

(* ----------------------- start / stop / isRunning ---------------------- *)

\* Mutant: the status of the session's start is not looked at.
Start_StatusIgnored(optionsOk, status) ==
    /\ hostPc = "idle"
    /\ IF ~optionsOk
         THEN /\ hostError' = JsError("TypeError", <<"Options object expected">>)
              /\ hostRet' = [op |-> "start", val |-> "null"]
              /\ UNCHANGED streamRunning
         ELSE /\ IF handle_ = NoHandle THEN UNCHANGED streamRunning
                                       ELSE Capture_Start(status)
              /\ hostError' = NoError
              /\ hostRet' = [op |-> "start", val |-> "undefined"]
    /\ UNCHANGED <<facadeVars, comVars, micVars, configVars,
                   wrapperVars, sessionAlive, hostPc, events, cbVars,
                   historyVars>>

\* options.Has(key) && options.Get(key).IsNumber() ? DoubleValue() : the
\* default.
NumberOr(v, default) == IF v.type = "number" THEN v.num ELSE default

\* options.Has(key) && options.Get(key).IsBoolean() ? Value() : the default.
BooleanOr(v, default) == IF v.type = "boolean" THEN v.bool ELSE default

\* Napi::Number::Int32Value of a number within the range of int32_t: the
\* fraction is cut off towards zero, NaN is 0.
Int32Value(v) ==
    IF v.nan THEN 0
    ELSE IF v.num >= 0 THEN v.num \div 1000
    ELSE -((-v.num) \div 1000)

\* The loop over an array option: the numbers are pushed in order, every
\* other entry is passed over.
RECURSIVE ProcessIds(_)
ProcessIds(items) ==
    IF items = <<>> THEN <<>>
    ELSE IF Head(items).type = "number"
         THEN <<Int32Value(Head(items))>> \o ProcessIds(Tail(items))
         ELSE ProcessIds(Tail(items))

\* std::vector<int32_t> includeProcesses as the option fills it.
ProcessesOf(v) == IF v.type = "array" THEN ProcessIds(v.items) ELSE <<>>

\* vec.empty() ? nullptr : vec.data(), static_cast<int32_t>(vec.size())
ListArg(vec) ==
    IF vec = <<>> THEN NullList
    ELSE [null |-> FALSE, data |-> vec, count |-> Len(vec)]

\* Mutant: mono is set from the stereo option as it is.
IsMono_NotNegated(options) ==
    IF options.stereo.type = "boolean" THEN options.stereo.bool ELSE TRUE

\* bool isMono = true; a boolean stereo option sets it to !stereo.
IsMono(options) ==
    IF options.stereo.type = "boolean" THEN ~options.stereo.bool ELSE TRUE

\* What AudioTeeWrapper::Start / AudioRecorderWrapper::StartSystemAudio pass
\* to the session for an options object.
StartConfig(options) ==
    [BlankConfig EXCEPT
        !.sampleRate = NumberOr(options.sampleRate, 0),
        !.chunkDurationMs = NumberOr(options.chunkDurationMs, 200000),
        !.mute = BooleanOr(options.mute, FALSE),
        !.isMono = IsMono(options),
        !.includeProcesses = ListArg(ProcessesOf(options.includeProcesses)),
        !.excludeProcesses = ListArg(ProcessesOf(options.excludeProcesses))]

\* What AudioRecorderWrapper::StartMicrophone passes to the session.
MicrophoneConfig(options) ==
    [BlankConfig EXCEPT
        !.sampleRate = NumberOr(options.sampleRate, 0),
        !.chunkDurationMs = NumberOr(options.chunkDurationMs, 200000),
        !.isMono = IsMono(options),
        !.deviceUID = IF options.deviceId.type = "string"
                        THEN options.deviceId.str
                        ELSE NullPtr,
        !.gain = NumberOr(options.gain, 1000)]

\* AudioTeeWrapper::Start on info[0] = arg: a missing options object is a
\* TypeError and nothing else; else the options are read and the session's
\* start is called; a nonzero status throws with the code in the message.
Start_Options(arg, status) ==
    /\ hostPc = "idle"
    /\ IF ~arg.isObject
         THEN /\ hostError' = JsError("TypeError", <<"Options object expected">>)
              /\ hostRet' = [op |-> "start", val |-> "null"]
              /\ UNCHANGED <<streamRunning, forwarded>>
         ELSE LET result == audio_start(handle_, status) IN
              /\ forwarded' = [api |-> "start", arg |-> arg,
                               config |-> StartConfig(arg.options)]
              /\ IF handle_ = NoHandle THEN UNCHANGED streamRunning
                                       ELSE Capture_Start(status)
              /\ hostError' =
                    IF result # 0
                      THEN JsError("StartError",
                                   <<"Failed to start AudioTee: error code ">>
                                      \o to_string(result))
                      ELSE NoError
              /\ hostRet' = [op |-> "start",
                             val |-> IF result # 0 THEN "null" ELSE "undefined"]
    /\ UNCHANGED <<facadeVars, comVars, micVars,
                   wrapperVars, sessionAlive, hostPc, events, cbVars,
                   historyVars>>

\* AudioTeeWrapper::Start without an object, or with an options object that
\* has no properties.
Start(optionsOk, status) ==
    Start_Options(StartArg(optionsOk, EmptyOptions), status)

\* AudioRecorderWrapper::StartMicrophone on info[0] = arg.
StartMicrophone(arg, status) ==
    /\ hostPc = "idle"
    /\ IF ~arg.isObject
         THEN /\ hostError' = JsError("TypeError", <<"Options object expected">>)
              /\ hostRet' = [op |-> "startMicrophone", val |-> "null"]
              /\ UNCHANGED <<streamRunning, forwarded>>
         ELSE LET result == audio_start(handle_, status) IN
              /\ forwarded' = [api |-> "startMicrophone", arg |-> arg,
                               config |-> MicrophoneConfig(arg.options)]
              /\ IF handle_ = NoHandle THEN UNCHANGED streamRunning
                                       ELSE Capture_Start(status)
              /\ hostError' =
                    IF result # 0
                      THEN JsError("StartError",
                                   <<"Failed to start microphone recording: error code ">>
                                      \o to_string(result))
                      ELSE NoError
              /\ hostRet' = [op |-> "startMicrophone",
                             val |-> IF result # 0 THEN "null" ELSE "undefined"]
    /\ UNCHANGED <<facadeVars, comVars, micVars,
                   wrapperVars, sessionAlive, hostPc, events, cbVars,
                   historyVars>>

\* Mutant: a nonzero status of the session's stop is dropped.
Stop_Swallowed(status) ==
    /\ hostPc = "idle"
    /\ IF handle_ = NoHandle THEN UNCHANGED streamRunning ELSE Capture_Stop
    /\ hostError' = NoError
    /\ hostRet' = [op |-> "stop", val |-> "undefined"]
    /\ UNCHANGED <<facadeVars, comVars, micVars, configVars,
                   wrapperVars, sessionAlive, hostPc, events, cbVars,
                   historyVars>>

\* Mutant: a nonzero status of the session's stop is queued as an error
\* event instead of being thrown.
Stop_QueuesFailure(status) ==
    /\ hostPc = "idle"
    /\ MutexAvailable
    /\ LET result == audio_stop(handle_, status) IN
       /\ IF handle_ = NoHandle THEN UNCHANGED streamRunning ELSE Capture_Stop
       /\ eventQueue_' =
             IF result # 0
               THEN QueuePush(eventQueue_,
                              [BlankEvent(<<0, 0>>) EXCEPT
                                  !.type = 3,
                                  !.message = "Failed to stop AudioTee"])
               ELSE eventQueue_
       /\ hostError' = NoError
       /\ hostRet' = [op |-> "stop", val |-> "undefined"]
    /\ UNCHANGED <<facadeVars, comVars, micVars, configVars,
                   handle_, eventMutex_, isDestroyed_, sessionAlive, hostPc,
                   events, cbVars, historyVars>>

\* Mutant: stop takes the event mutex and keeps it.
Stop_HoldsLock(status) ==
    /\ hostPc = "idle"
    /\ MutexAvailable
    /\ eventMutex_' = "locked"
    /\ LET result == audio_stop(handle_, status) IN
       /\ IF handle_ = NoHandle THEN UNCHANGED streamRunning ELSE Capture_Stop
       /\ hostError' = IF result # 0
                         THEN JsError("StopError", <<"Failed to stop AudioTee">>)
                         ELSE NoError
       /\ hostRet' = [op |-> "stop", val |-> "undefined"]
    /\ UNCHANGED <<facadeVars, comVars, micVars, configVars,
                   handle_, eventQueue_, isDestroyed_, sessionAlive, hostPc,
                   events, cbVars, historyVars>>

\* AudioTeeWrapper::Stop: a nonzero status throws "Failed to stop AudioTee";
\* the call returns undefined either way.
Stop(status) ==
    /\ hostPc = "idle"
    /\ LET result == audio_stop(handle_, status) IN
       /\ IF handle_ = NoHandle THEN UNCHANGED streamRunning ELSE Capture_Stop
       /\ hostError' = IF result # 0
                         THEN JsError("StopError", <<"Failed to stop AudioTee">>)
                         ELSE NoError
       /\ hostRet' = [op |-> "stop", val |-> "undefined"]
    /\ UNCHANGED <<facadeVars, comVars, micVars, configVars,
                   wrapperVars, sessionAlive, hostPc, events, cbVars,
                   historyVars>>

\* AudioTeeWrapper::IsRunning
IsRunning ==
    /\ hostPc = "idle"
    /\ hostRet' = [op |-> "isRunning", val |-> audio_is_running(handle_)]
    /\ hostError' = NoError
    /\ UNCHANGED <<facadeVars, comVars, micVars, configVars,
                   wrapperVars, sessionVars, hostPc, events, cbVars,
                   historyVars>>

(* ------------------------ processEvents / drain ------------------------ *)

\* Mutant: channelsPerFrame and bitsPerChannel are set from each other's field.
ToJsObject_Swapped(event) ==
    CASE event.type = 0 -> [type |-> 0, data |-> event.data]
      [] event.type = 3 -> [type |-> 3, message |-> event.message]
      [] event.type = 4 -> [type |-> 4, sampleRate |-> event.sampleRate,
                            channelsPerFrame |-> event.bitsPerChannel,
                            bitsPerChannel |-> event.channelsPerFrame,
                            isFloat |-> (event.isFloat # 0),
                            encoding |-> event.encoding]
      [] OTHER -> [type |-> event.type]

\* The object ProcessEvents builds for one event: the type, and the fields
\* of that type's case.
ToJsObject(event) ==
    CASE event.type = 0 -> [type |-> 0, data |-> event.data]
      [] event.type = 3 -> [type |-> 3, message |-> event.message]
      [] event.type = 4 -> [type |-> 4, sampleRate |-> event.sampleRate,
                            channelsPerFrame |-> event.channelsPerFrame,
                            bitsPerChannel |-> event.bitsPerChannel,
                            isFloat |-> (event.isFloat # 0),
                            encoding |-> event.encoding]
      [] OTHER -> [type |-> event.type]

\* Mutant: DrainEvents returns nothing once the flag is set.
RECURSIVE DrainEventsResult_Guarded(_)
DrainEventsResult_Guarded(q) ==
    IF isDestroyed_ \/ q = <<>> THEN <<>>
    ELSE <<Head(q)>> \o DrainEventsResult_Guarded(Tail(q))

\* What DrainEvents' body returns when run on queue q: the loop moves front()
\* to the back of the vector until the queue is empty.  The flag is not read.
RECURSIVE DrainEventsResult(_)
DrainEventsResult(q) ==
    IF q = <<>> THEN <<>>
    ELSE <<Head(q)>> \o DrainEventsResult(Tail(q))

\* Mutant: processEvents is served only while the stream runs.
DrainEvents_Lock_WhenRunning ==
    /\ hostPc = "idle"
    /\ streamRunning
    /\ MutexAvailable
    /\ eventMutex_' = "locked"
    /\ hostPc' = "DrainEvents_loop"
    /\ events' = <<>>
    /\ drainSnapshot' = Ids(eventQueue_)
    /\ UNCHANGED <<facadeVars, comVars, micVars, configVars,
                   handle_, eventQueue_, isDestroyed_, sessionVars, hostRet,
                   hostError, cbVars, calls, issued, pending, accepted,
                   drained, discarded, lateAccepted, destroyCalls,
                   flagAtDestroy, deletedWhileRunning, useAfterFree>>

\* AudioTeeWrapper::DrainEvents, the lock_guard's constructor (ProcessEvents
\* has just called it).
DrainEvents_Lock ==
    /\ hostPc = "idle"
    /\ MutexAvailable
    /\ eventMutex_' = "locked"
    /\ hostPc' = "DrainEvents_loop"
    /\ events' = <<>>
    /\ drainSnapshot' = Ids(eventQueue_)
    /\ UNCHANGED <<facadeVars, comVars, micVars, configVars,
                   handle_, eventQueue_, isDestroyed_, sessionVars, hostRet,
                   hostError, cbVars, calls, issued, pending,
                   accepted, drained,
                   discarded, lateAccepted, destroyCalls, flagAtDestroy,
                   deletedWhileRunning, useAfterFree>>

\* Mutant: the moved event is put at the front of the vector.
DrainEvents_Iterate_Reversed ==
    /\ hostPc = "DrainEvents_loop"
    /\ eventQueue_ # <<>>
    /\ events' = <<Head(eventQueue_)>> \o events
    /\ eventQueue_' = Tail(eventQueue_)
    /\ UNCHANGED <<facadeVars, comVars, micVars, configVars,
                   handle_, eventMutex_, isDestroyed_, sessionVars, hostPc,
                   hostRet, hostError, cbVars, historyVars>>

\* Mutant: the loop pops the front without keeping it.
DrainEvents_Iterate_Dropped ==
    /\ hostPc = "DrainEvents_loop"
    /\ eventQueue_ # <<>>
    /\ eventQueue_' = Tail(eventQueue_)
    /\ UNCHANGED <<facadeVars, comVars, micVars, configVars,
                   handle_, eventMutex_, isDestroyed_, sessionVars, hostVars,
                   cbVars, historyVars>>

\* One iteration of "while (!eventQueue_.empty())": front() is moved to the
\* back of events and popped.
DrainEvents_Iterate ==
    /\ hostPc = "DrainEvents_loop"
    /\ eventQueue_ # <<>>
    /\ events' = Append(events, Head(eventQueue_))
    /\ eventQueue_' = Tail(eventQueue_)
    /\ UNCHANGED <<facadeVars, comVars, micVars, configVars,
                   handle_, eventMutex_, isDestroyed_, sessionVars, hostPc,
                   hostRet, hostError, cbVars, historyVars>>

\* Mutant: DrainEvents returns without releasing the mutex.
ProcessEvents_Return_KeepsLock ==
    /\ hostPc = "DrainEvents_loop"
    /\ eventQueue_ = <<>>
    /\ hostRet' = [op |-> "processEvents",
                   val |-> [i \in 1..Len(events) |-> ToJsObject(events[i])]]
    /\ hostError' = NoError
    /\ drained' = drained \o Ids(events)
    /\ pending' = {a \in pending :
                       \A i \in 1..Len(events) : events[i].id # a.id}
    /\ events' = <<>>
    /\ drainSnapshot' = <<>>
    /\ hostPc' = "idle"
    /\ UNCHANGED <<facadeVars, comVars, micVars, configVars,
                   wrapperVars, sessionVars, cbVars, calls, issued, accepted,
                   discarded, lateAccepted, destroyCalls, flagAtDestroy,
                   deletedWhileRunning, useAfterFree>>

\* The loop ends, the lock_guard unlocks, DrainEvents returns the vector and
\* ProcessEvents returns the array built from it.
ProcessEvents_Return ==
    /\ hostPc = "DrainEvents_loop"
    /\ eventQueue_ = <<>>
    /\ eventMutex_' = "unlocked"
    /\ hostRet' = [op |-> "processEvents",
                   val |-> [i \in 1..Len(events) |-> ToJsObject(events[i])]]
    /\ hostError' = NoError
    /\ drained' = drained \o Ids(events)
    /\ pending' = {a \in pending :
                       \A i \in 1..Len(events) : events[i].id # a.id}
    /\ events' = <<>>
    /\ drainSnapshot' = <<>>
    /\ hostPc' = "idle"
    /\ UNCHANGED <<facadeVars, comVars, micVars, configVars,
                   handle_, eventQueue_, isDestroyed_, sessionVars, cbVars,
                   calls, issued, accepted, discarded, lateAccepted,
                   destroyCalls, flagAtDestroy, deletedWhileRunning,
                   useAfterFree>>

(* ----------------------------- destructor ------------------------------ *)

\* Mutant: the destructor does not set the flag.
Destructor_SetFlag_Omitted ==
    /\ hostPc \in {"idle", "failed"}
    /\ hostPc' = "dtor_if_handle"
    /\ UNCHANGED <<facadeVars, comVars, micVars, configVars,
                   wrapperVars, sessionVars, events, hostRet, hostError,
                   cbVars, historyVars>>

\* Mutant: the wrapper is finalized only when its stream is not running.
Destructor_SetFlag_WhenStopped ==
    /\ hostPc \in {"idle", "failed"}
    /\ ~streamRunning
    /\ isDestroyed_' = TRUE
    /\ hostPc' = "dtor_if_handle"
    /\ UNCHANGED <<facadeVars, comVars, micVars, configVars,
                   handle_, eventMutex_, eventQueue_, sessionVars, events,
                   hostRet, hostError, cbVars, historyVars>>

\* AudioTeeWrapper::~AudioTeeWrapper, "isDestroyed_ = true".  The finalizer
\* runs on the JavaScript thread, between host calls.
Destructor_SetFlag ==
    /\ hostPc \in {"idle", "failed"}
    /\ isDestroyed_' = TRUE
    /\ hostPc' = "dtor_if_handle"
    /\ UNCHANGED <<facadeVars, comVars, micVars, configVars,
                   handle_, eventMutex_, eventQueue_, sessionVars, events,
                   hostRet, hostError, cbVars, historyVars>>

\* Mutant: audio_destroy deletes the capture without stopping it.
audio_destroy_Stop_Omitted == UNCHANGED streamRunning

\* audio_destroy, up to "capture->Stop()"; "if (!handle) return" is not
\* taken, the wrapper calls it with a session.
audio_destroy_Stop == Capture_Stop

\* Mutant: the destructor does not release the session.
Destructor_CallDestroy_Omitted ==
    /\ hostPc = "dtor_if_handle"
    /\ hostPc' = "dtor_end"
    /\ UNCHANGED <<facadeVars, comVars, micVars, configVars,
                   wrapperVars, sessionVars, events, hostRet, hostError,
                   cbVars, historyVars>>

\* Mutant: the session's destroy is called without testing handle_.
Destructor_CallDestroy_Unguarded ==
    /\ hostPc = "dtor_if_handle"
    /\ destroyCalls' = destroyCalls + 1
    /\ flagAtDestroy' = (flagAtDestroy /\ isDestroyed_)
    /\ audio_destroy_Stop
    /\ hostPc' = "audio_destroy_delete"
    /\ UNCHANGED <<facadeVars, comVars, micVars, configVars,
                   wrapperVars, sessionAlive, events, hostRet, hostError,
                   cbVars, calls, issued, pending, accepted, drained,
                   drainSnapshot, discarded, lateAccepted,
                   deletedWhileRunning, useAfterFree>>

\* "if (handle_) audiotee_destroy(handle_)": the call is entered and the
\* session's destroy stops the capture.
Destructor_CallDestroy ==
    /\ hostPc = "dtor_if_handle"
    /\ IF handle_ # NoHandle
         THEN /\ destroyCalls' = destroyCalls + 1
              /\ flagAtDestroy' = (flagAtDestroy /\ isDestroyed_)
              /\ audio_destroy_Stop
              /\ hostPc' = "audio_destroy_delete"
         ELSE /\ hostPc' = "dtor_end"
              /\ UNCHANGED <<destroyCalls, flagAtDestroy, streamRunning>>
    /\ UNCHANGED <<facadeVars, comVars, micVars, configVars,
                   wrapperVars, sessionAlive, events, hostRet, hostError,
                   cbVars, calls, issued, pending,
                   accepted, drained, drainSnapshot,
                   discarded, lateAccepted, deletedWhileRunning, useAfterFree>>

\* audio_destroy: "delete capture".
audio_destroy_Delete ==
    /\ hostPc = "audio_destroy_delete"
    /\ CallbacksQuiesced
    /\ sessionAlive' = FALSE
    /\ deletedWhileRunning' = (deletedWhileRunning \/ streamRunning)
    /\ hostPc' = "dtor_clear_handle"
    /\ UNCHANGED <<facadeVars, comVars, micVars, configVars,
                   wrapperVars, streamRunning, events, hostRet, hostError,
                   cbVars, calls, issued, pending,
                   accepted, drained, drainSnapshot,
                   discarded, lateAccepted, destroyCalls, flagAtDestroy,
                   useAfterFree>>

\* "handle_ = nullptr": the destructor's body is done.
Destructor_ClearHandle ==
    /\ hostPc = "dtor_clear_handle"
    /\ handle_' = NoHandle
    /\ hostPc' = "dtor_end"
    /\ UNCHANGED <<facadeVars, comVars, micVars, configVars,
                   eventMutex_, eventQueue_, isDestroyed_, sessionVars, events,
                   hostRet, hostError, cbVars, historyVars>>

\* The members (queue, mutex, flag) are destroyed and the storage released.
Destructor_Return ==
    /\ hostPc = "dtor_end"
    /\ hostPc' = "freed"
    /\ UNCHANGED <<facadeVars, comVars, micVars, configVars,
                   wrapperVars, sessionVars, events, hostRet, hostError,
                   cbVars, historyVars>>

(* ------------------------- permission requests ------------------------ *)

\* The request the host makes next: requests are numbered in call order.
NextRequest(r) ==
    /\ request[r].pc = "none"
    /\ \A q \in Requests : q < r => request[q].pc # "none"

\* Mutant: the context is allocated before the argument is looked at.
RequestPermission_Call_AllocatesFirst(r, hasCallback) ==
    /\ jsThread = 0
    /\ NextRequest(r)
    /\ contexts' = [contexts EXCEPT ![r] = [state |-> "live", tsfn |-> r]]
    /\ IF ~hasCallback
         THEN /\ request' = [request EXCEPT ![r].pc = "rejected"]
              /\ facadeError' =
                    JsError("TypeError", <<"Callback function expected">>)
              /\ facadeRet' = [op |-> "requestPermission", val |-> "undefined"]
              /\ UNCHANGED <<jsThread, tsfns>>
         ELSE /\ tsfns' = [tsfns EXCEPT ![r] = [state |-> "open", threads |-> 1,
                                                queue |-> <<>>, callback |-> r]]
              /\ request' = [request EXCEPT ![r].pc = "in_request",
                                            ![r].context = r]
              /\ jsThread' = r
              /\ UNCHANGED <<facadeRet, facadeError>>
    /\ UNCHANGED <<bridgeVars, comVars, micVars, deviceVars, native, hostCallbacks, deliveryOrder,
                   releaseCalls, deleteCalls, permFault>>

\* RequestPermission up to the call of audiotee_permission_request: without a
\* function argument a TypeError and undefined; else "new
\* PermissionRequestContext", ThreadSafeFunction::New(env, callback, name, 0, 1)
\* (unbounded queue, one thread) and the collaborator is given the native
\* callback and the context.
RequestPermission_Call(r, hasCallback) ==
    /\ jsThread = 0
    /\ NextRequest(r)
    /\ IF ~hasCallback
         THEN /\ request' = [request EXCEPT ![r].pc = "rejected"]
              /\ facadeError' =
                    JsError("TypeError", <<"Callback function expected">>)
              /\ facadeRet' = [op |-> "requestPermission", val |-> "undefined"]
              /\ UNCHANGED <<jsThread, contexts, tsfns>>
         ELSE /\ contexts' = [contexts EXCEPT ![r] = [state |-> "live", tsfn |-> r]]
              /\ tsfns' = [tsfns EXCEPT ![r] = [state |-> "open", threads |-> 1,
                                                queue |-> <<>>, callback |-> r]]
              /\ request' = [request EXCEPT ![r].pc = "in_request",
                                            ![r].context = r]
              /\ jsThread' = r
              /\ UNCHANGED <<facadeRet, facadeError>>
    /\ UNCHANGED <<bridgeVars, comVars, micVars, deviceVars, native, hostCallbacks, deliveryOrder,
                   releaseCalls, deleteCalls, permFault>>

\* Mutant: the request returns only when the result has been reported.
RequestPermission_Return_WaitsForResult(r) ==
    /\ jsThread = r
    /\ request[r].pc = "in_request"
    /\ request[r].decision # "undecided"
    /\ request' = [request EXCEPT ![r].pc = "returned"]
    /\ jsThread' = 0
    /\ facadeRet' = [op |-> "requestPermission", val |-> "undefined"]
    /\ facadeError' = NoError
    /\ UNCHANGED <<bridgeVars, comVars, micVars, deviceVars, contexts, tsfns, native, hostCallbacks,
                   deliveryOrder, releaseCalls, deleteCalls, permFault>>

\* audiotee_permission_request has returned; "return env.Undefined()".
RequestPermission_Return(r) ==
    /\ jsThread = r
    /\ request[r].pc = "in_request"
    /\ request' = [request EXCEPT ![r].pc = "returned"]
    /\ jsThread' = 0
    /\ facadeRet' = [op |-> "requestPermission", val |-> "undefined"]
    /\ facadeError' = NoError
    /\ UNCHANGED <<bridgeVars, comVars, micVars, deviceVars, contexts, tsfns, native, hostCallbacks,
                   deliveryOrder, releaseCalls, deleteCalls, permFault>>

\* The collaborator has the decision and invokes the native callback, once,
\* on a thread of its choice, with the context it was given.
Collaborator_Report(r, granted) ==
    /\ request[r].pc \in {"in_request", "returned"}
    /\ request[r].decision = "undecided"
    /\ request' = [request EXCEPT
                      ![r].decision = IF granted THEN "granted" ELSE "denied"]
    /\ native' = [native EXCEPT ![r] = [pc |-> "BlockingCall",
                                        granted |-> granted,
                                        context |-> request[r].context]]
    /\ UNCHANGED <<bridgeVars, comVars, micVars, deviceVars, jsThread, contexts, tsfns, hostCallbacks,
                   deliveryOrder, releaseCalls, deleteCalls, permFault,
                   facadeRet, facadeError>>

\* Mutant: the native callback takes the context allocated last instead of
\* its argument.
CallbackContext_Latest(r) ==
    CHOOSE a \in Requests :
        /\ contexts[a].state # "unallocated"
        /\ \A b \in Requests : contexts[b].state # "unallocated" => b <= a

\* "auto* ctx = static_cast<PermissionRequestContext*>(context)"
CallbackContext(r) == native[r].context

\* PermissionRequestCallback, "ctx->tsfn.BlockingCall(...)": the call with
\* the captured granted is queued; the queue is unbounded, nothing waits.
PermissionRequestCallback_BlockingCall(r) ==
    /\ native[r].pc = "BlockingCall"
    /\ LET ctx == CallbackContext(r)
           f == contexts[ctx].tsfn
       IN  /\ tsfns' = IF tsfns[f].state = "open"
                          THEN [tsfns EXCEPT ![f].queue =
                                                Append(@, native[r].granted)]
                          ELSE tsfns
           /\ permFault' = (permFault \/ contexts[ctx].state # "live"
                                      \/ tsfns[f].state # "open")
    /\ native' = [native EXCEPT ![r].pc = "Release"]
    /\ UNCHANGED <<bridgeVars, comVars, micVars, deviceVars, jsThread, request, contexts, hostCallbacks,
                   deliveryOrder, releaseCalls, deleteCalls, facadeRet,
                   facadeError>>

\* Mutant: the thread-safe function is not released.
PermissionRequestCallback_Release_Omitted(r) ==
    /\ native[r].pc = "Release"
    /\ native' = [native EXCEPT ![r].pc = "delete"]
    /\ UNCHANGED <<bridgeVars, comVars, micVars, deviceVars, jsThread, request, contexts, tsfns,
                   hostCallbacks, deliveryOrder, releaseCalls, deleteCalls,
                   permFault, facadeRet, facadeError>>

\* "ctx->tsfn.Release()": the one thread gives the function up.
PermissionRequestCallback_Release(r) ==
    /\ native[r].pc = "Release"
    /\ LET ctx == CallbackContext(r)
           f == contexts[ctx].tsfn
       IN  /\ tsfns' = IF tsfns[f].threads > 0
                          THEN [tsfns EXCEPT ![f].threads = @ - 1]
                          ELSE tsfns
           /\ releaseCalls' = [releaseCalls EXCEPT ![f] = @ + 1]
           /\ permFault' = (permFault \/ contexts[ctx].state # "live"
                                      \/ tsfns[f].threads = 0)
    /\ native' = [native EXCEPT ![r].pc = "delete"]
    /\ UNCHANGED <<bridgeVars, comVars, micVars, deviceVars, jsThread, request, contexts, hostCallbacks,
                   deliveryOrder, deleteCalls, facadeRet, facadeError>>

\* "delete ctx": the native callback returns.
PermissionRequestCallback_Delete(r) ==
    /\ native[r].pc = "delete"
    /\ LET ctx == CallbackContext(r)
       IN  /\ contexts' = [contexts EXCEPT ![ctx].state = "deleted"]
           /\ deleteCalls' = [deleteCalls EXCEPT ![ctx] = @ + 1]
           /\ permFault' = (permFault \/ contexts[ctx].state # "live")
    /\ native' = [native EXCEPT ![r].pc = "done"]
    /\ UNCHANGED <<bridgeVars, comVars, micVars, deviceVars, jsThread, request, tsfns, hostCallbacks,
                   deliveryOrder, releaseCalls, facadeRet, facadeError>>

\* The queued call runs on the JavaScript thread, between host calls:
\* "callback.Call({Napi::Boolean::New(env, granted)})".
Tsfn_Dispatch(f) ==
    /\ jsThread = 0
    /\ tsfns[f].state = "open"
    /\ tsfns[f].queue # <<>>
    /\ hostCallbacks' = [hostCallbacks EXCEPT ![tsfns[f].callback] =
                                                  Append(@, Head(tsfns[f].queue))]
    /\ deliveryOrder' = Append(deliveryOrder, tsfns[f].callback)
    /\ tsfns' = [tsfns EXCEPT ![f].queue = Tail(@)]
    /\ UNCHANGED <<bridgeVars, comVars, micVars, deviceVars, jsThread, request, contexts, native,
                   releaseCalls, deleteCalls, permFault, facadeRet,
                   facadeError>>

\* A thread-safe function with no thread left and nothing queued is
\* finalized: its resources and its reference to the host callback go.
Tsfn_Finalize(f) ==
    /\ jsThread = 0
    /\ tsfns[f].state = "open"
    /\ tsfns[f].threads = 0
    /\ tsfns[f].queue = <<>>
    /\ tsfns' = [tsfns EXCEPT ![f].state = "finalized"]
    /\ UNCHANGED <<bridgeVars, comVars, micVars, deviceVars, jsThread, request, contexts, native,
                   hostCallbacks, deliveryOrder, releaseCalls, deleteCalls,
                   permFault, facadeRet, facadeError>>

\* Status values a permission query may get from the collaborator.
PermissionStatuses ==
    {INT32_MIN, -1, 0, 1, 2, 3, 4, 255, 256, 257, 258, 65537, 65538, INT32_MAX}

\* Mutant: a value outside 0..2 is taken modulo 4.
PermissionStatusString_Masked(status) ==
    CASE status % 4 = 1 -> "denied"
      [] status % 4 = 2 -> "authorized"
      [] OTHER -> "unknown"

\* The switch of GetPermissionStatus.
PermissionStatusString(status) ==
    CASE status = 0 -> "unknown"
      [] status = 1 -> "denied"
      [] status = 2 -> "authorized"
      [] OTHER -> "unknown"

\* GetPermissionStatus: the collaborator's status as a string.
GetPermissionStatus(status) ==
    /\ jsThread = 0
    /\ facadeRet' = [op |-> "getPermissionStatus",
                     val |-> PermissionStatusString(status)]
    /\ facadeError' = NoError
    /\ UNCHANGED <<bridgeVars, comVars, micVars, deviceVars, permVars>>

(* -------------------------- device functions --------------------------- *)

\* The field a string pointer of record i belongs to, and the bytes the
\* collaborator put behind it.
FieldNames == <<"uid", "name", "manufacturer">>

TextOf(h) == <<FieldNames[((h - 2) % 3) + 1], ((h - 2) \div 3) + 1>>

\* The 48-byte record of device i by offset, as the collaborator may fill
\* it: every string pointer is null or points to a string of its own.
DeviceStruct(i, nulls, input) ==
    [o0  |-> IF 1 \in nulls THEN NullHandle ELSE TextHandle(i, 1),
     o8  |-> IF 2 \in nulls THEN NullHandle ELSE TextHandle(i, 2),
     o16 |-> IF 3 \in nulls THEN NullHandle ELSE TextHandle(i, 3),
     o24 |-> input,
     o25 |-> input,
     o26 |-> ~input,
     o32 |-> IF input THEN 48000 ELSE 44100,
     o40 |-> IF input THEN 1 ELSE 2]

DeviceStructs(i) ==
    {DeviceStruct(i, {}, TRUE), DeviceStruct(i, {}, FALSE),
     DeviceStruct(i, {1}, TRUE), DeviceStruct(i, {2}, FALSE),
     DeviceStruct(i, {3}, TRUE), DeviceStruct(i, {1, 2, 3}, FALSE)}

DeviceArrays(n) ==
    {buffer \in [1..n -> UNION {DeviceStructs(i) : i \in 1..n}] :
        \A i \in 1..n : buffer[i] \in DeviceStructs(i)}

\* Status values of an enumeration (0 = success).
ListStatuses == {0, -1, 1}

\* Outcomes of coreaudio_list_devices: any status; *devices null with any
\* count, or an array of count records.
ListOutcomes ==
    {[status |-> st, devices |-> NullHandle, count |-> n, buffer |-> <<>>,
      uid |-> NullHandle, text |-> <<>>] : st \in ListStatuses, n \in 0..MaxDevices}
    \cup
    UNION {{[status |-> st, devices |-> BufferHandle, count |-> n,
             buffer |-> b, uid |-> NullHandle, text |-> <<>>] :
                st \in ListStatuses, b \in DeviceArrays(n)} :
           n \in 0..MaxDevices}

\* The heap after coreaudio_list_devices returned outcome o.
coreaudio_list_devices(o) ==
    [h \in Handles |->
        IF o.devices = NullHandle THEN NoBlock
        ELSE IF h = o.devices
             THEN [allocated |-> TRUE, frees |-> 0, content |-> o.buffer]
        ELSE IF \E i \in 1..Len(o.buffer) :
                    h \in {o.buffer[i].o0, o.buffer[i].o8, o.buffer[i].o16}
             THEN [allocated |-> TRUE, frees |-> 0, content |-> TextOf(h)]
        ELSE NoBlock]

\* free / delete[] of one block.
Free(heap, p) ==
    [heap EXCEPT ![p] = [allocated |-> @.allocated, frees |-> @.frees + 1,
                         content |-> <<>>]]

\* if (devices[i].uid) free(devices[i].uid);
FreeIfSet(heap, p) == IF p # NullHandle THEN Free(heap, p) ELSE heap

RECURSIVE FreeDeviceTexts(_, _, _, _)
FreeDeviceTexts(heap, records, i, count) ==
    IF i > count
    THEN heap
    ELSE FreeDeviceTexts(
             FreeIfSet(FreeIfSet(FreeIfSet(heap, records[i].o0),
                                 records[i].o8),
                       records[i].o16),
             records, i + 1, count)

\* audio_free_device_list: the strings of each record, then the array.
audio_free_device_list(heap, devices, count) ==
    IF devices = NullHandle
    THEN heap
    ELSE Free(FreeDeviceTexts(heap, heap[devices].content, 1, count), devices)

\* uid ? uid : ""
TextOrEmpty(heap, p) == IF p # NullHandle THEN heap[p].content ELSE <<>>

\* The object ListDevices builds from the record at base.
DecodeDevice(heap, base) ==
    [id           |-> TextOrEmpty(heap, base.o0),
     name         |-> TextOrEmpty(heap, base.o8),
     manufacturer |-> TextOrEmpty(heap, base.o16),
     isDefault    |-> base.o24,
     isInput      |-> base.o25,
     isOutput     |-> base.o26,
     sampleRate   |-> base.o32,
     channelCount |-> base.o40]

\* Mutant: a record whose uid pointer is null is left out.
DecodedDevices_SkipNull(heap, devices, count) ==
    SelectSeq([i \in 1..count |-> DecodeDevice(heap, heap[devices].content[i])],
              LAMBDA d : d.id # <<>>)

\* The loop of ListDevices over the count records.
DecodedDevices(heap, devices, count) ==
    [i \in 1..count |-> DecodeDevice(heap, heap[devices].content[i])]

\* ListDevices on the collaborator outcome o.
ListDevices(o) ==
    /\ jsThread = 0
    /\ LET listed == coreaudio_list_devices(o)
       IN  IF o.status # 0 \/ o.devices = NullHandle \/ o.count = 0
           THEN /\ deviceRet' = [op |-> "listDevices", list |-> <<>>,
                                 isNull |-> FALSE, id |-> <<>>]
                /\ deviceHeap' = listed
           ELSE /\ deviceRet' = [op |-> "listDevices",
                                 list |-> DecodedDevices(listed, o.devices,
                                                         o.count),
                                 isNull |-> FALSE, id |-> <<>>]
                /\ deviceHeap' = audio_free_device_list(listed, o.devices,
                                                        o.count)
    /\ deviceOutcome' = o
    /\ facadeRet' = [op |-> "listDevices", val |-> "array"]
    /\ facadeError' = NoError
    /\ UNCHANGED <<bridgeVars, comVars, micVars, permVars>>

\* Device ids of the enumerator as UTF-16 code units; empty = no device.
DeviceIds == {<<>>, <<100, 49>>, <<100, 233>>, <<8364>>}

\* WideCharToMultiByte(CP_UTF8, ...) of one code unit of the basic plane.
Utf8Unit(c) ==
    IF c < 128 THEN <<c>>
    ELSE IF c < 2048 THEN <<192 + (c \div 64), 128 + (c % 64)>>
    ELSE <<224 + (c \div 4096), 128 + ((c \div 64) % 64), 128 + (c % 64)>>

RECURSIVE Utf8(_)
Utf8(id) == IF id = <<>> THEN <<>> ELSE Utf8Unit(Head(id)) \o Utf8(Tail(id))

\* audio_get_default_input_device: null for an empty id or a failed
\* conversion, else a malloc'd UTF-8 string.
audio_get_default_input_device(id, converts) ==
    LET len == IF converts THEN Len(Utf8(id)) + 1 ELSE 0
    IN  IF id = <<>> THEN NullHandle
        ELSE IF len <= 0 THEN NullHandle
        ELSE UidHandle

audio_get_default_output_device(id, converts) ==
    LET len == IF converts THEN Len(Utf8(id)) + 1 ELSE 0
    IN  IF id = <<>> THEN NullHandle
        ELSE IF len <= 0 THEN NullHandle
        ELSE UidHandle

\* The heap after a default-device query returned uid.
DefaultHeap(uid, id) ==
    IF uid = NullHandle
    THEN EmptyHeap
    ELSE [EmptyHeap EXCEPT ![uid] = [allocated |-> TRUE, frees |-> 0,
                                     content |-> Utf8(id)]]

DefaultOutcome(uid, got) ==
    [status |-> 0, devices |-> NullHandle, count |-> 0, buffer |-> <<>>,
     uid |-> uid, text |-> TextOrEmpty(got, uid)]

\* Mutant: the string is not freed.
GetDefaultInputDevice_NoFree(id, converts) ==
    /\ jsThread = 0
    /\ LET uid == audio_get_default_input_device(id, converts)
           got == DefaultHeap(uid, id)
       IN  /\ IF uid = NullHandle
              THEN /\ deviceRet' = [op |-> "getDefaultInputDevice",
                                    list |-> <<>>, isNull |-> TRUE,
                                    id |-> <<>>]
                   /\ facadeRet' = [op |-> "getDefaultInputDevice",
                                    val |-> "null"]
                   /\ deviceHeap' = got
              ELSE /\ deviceRet' = [op |-> "getDefaultInputDevice",
                                    list |-> <<>>, isNull |-> FALSE,
                                    id |-> got[uid].content]
                   /\ facadeRet' = [op |-> "getDefaultInputDevice",
                                    val |-> "string"]
                   /\ deviceHeap' = got
           /\ deviceOutcome' = DefaultOutcome(uid, got)
    /\ facadeError' = NoError
    /\ UNCHANGED <<bridgeVars, comVars, micVars, permVars>>

\* GetDefaultInputDevice.
GetDefaultInputDevice(id, converts) ==
    /\ jsThread = 0
    /\ LET uid == audio_get_default_input_device(id, converts)
           got == DefaultHeap(uid, id)
       IN  /\ IF uid = NullHandle
              THEN /\ deviceRet' = [op |-> "getDefaultInputDevice",
                                    list |-> <<>>, isNull |-> TRUE,
                                    id |-> <<>>]
                   /\ facadeRet' = [op |-> "getDefaultInputDevice",
                                    val |-> "null"]
                   /\ deviceHeap' = got
              ELSE /\ deviceRet' = [op |-> "getDefaultInputDevice",
                                    list |-> <<>>, isNull |-> FALSE,
                                    id |-> got[uid].content]
                   /\ facadeRet' = [op |-> "getDefaultInputDevice",
                                    val |-> "string"]
                   /\ deviceHeap' = Free(got, uid)
           /\ deviceOutcome' = DefaultOutcome(uid, got)
    /\ facadeError' = NoError
    /\ UNCHANGED <<bridgeVars, comVars, micVars, permVars>>

\* GetDefaultOutputDevice.
GetDefaultOutputDevice(id, converts) ==
    /\ jsThread = 0
    /\ LET uid == audio_get_default_output_device(id, converts)
           got == DefaultHeap(uid, id)
       IN  /\ IF uid = NullHandle
              THEN /\ deviceRet' = [op |-> "getDefaultOutputDevice",
                                    list |-> <<>>, isNull |-> TRUE,
                                    id |-> <<>>]
                   /\ facadeRet' = [op |-> "getDefaultOutputDevice",
                                    val |-> "null"]
                   /\ deviceHeap' = got
              ELSE /\ deviceRet' = [op |-> "getDefaultOutputDevice",
                                    list |-> <<>>, isNull |-> FALSE,
                                    id |-> got[uid].content]
                   /\ facadeRet' = [op |-> "getDefaultOutputDevice",
                                    val |-> "string"]
                   /\ deviceHeap' = Free(got, uid)
           /\ deviceOutcome' = DefaultOutcome(uid, got)
    /\ facadeError' = NoError
    /\ UNCHANGED <<bridgeVars, comVars, micVars, permVars>>

(* ------------------------ the Windows functions ------------------------ *)

\* HRESULT values CoInitializeEx returns: S_OK, S_FALSE (the thread had COM
\* initialized already) and RPC_E_CHANGED_MODE (0x80010106 as a 32-bit
\* signed integer), a failure.
S_OK == 0

S_FALSE == 1

RPC_E_CHANGED_MODE == -2147417850

HResults == {S_OK, S_FALSE, RPC_E_CHANGED_MODE}

\* The SUCCEEDED macro.
SUCCEEDED(hr) == hr >= 0

\* Mutant: the flag is one per process, not one per thread.
EnsureComInitialized_ProcessWide(t, hr) ==
    /\ ensureCalls' = [ensureCalls EXCEPT ![t] = @ + 1]
    /\ IF ~comInitialized[t]
         THEN /\ coInitCalls' = [coInitCalls EXCEPT ![t] = Append(@, hr)]
              /\ IF SUCCEEDED(hr) \/ hr = S_FALSE
                   THEN comInitialized' = [u \in Threads |-> TRUE]
                   ELSE UNCHANGED comInitialized
         ELSE UNCHANGED <<comInitialized, coInitCalls>>

\* EnsureComInitialized on thread t, hr being what CoInitializeEx returns if
\* it is called: "if (!comInitialized) { hr = CoInitializeEx(...); if
\* (SUCCEEDED(hr) || hr == S_FALSE) comInitialized = true; }".
EnsureComInitialized(t, hr) ==
    /\ ensureCalls' = [ensureCalls EXCEPT ![t] = @ + 1]
    /\ IF ~comInitialized[t]
         THEN /\ coInitCalls' = [coInitCalls EXCEPT ![t] = Append(@, hr)]
              /\ IF SUCCEEDED(hr) \/ hr = S_FALSE
                   THEN comInitialized' = [comInitialized EXCEPT ![t] = TRUE]
                   ELSE UNCHANGED comInitialized
         ELSE UNCHANGED <<comInitialized, coInitCalls>>

\* Calls made so far, on all threads, to functions that ensure COM.
RECURSIVE ComCallsOf(_)
ComCallsOf(S) ==
    IF S = {} THEN 0
    ELSE LET t == CHOOSE u \in S : TRUE
         IN  ensureCalls[t] + ComCallsOf(S \ {t})

ComCallsMade == ComCallsOf(Threads)

\* A handle a caller may pass: null, or the one of a capture object that has
\* not been destroyed.
ValidHandle(handle) == handle = TheSession /\ sessionAlive

\* audio_create called on thread t: COM is ensured, a capture object is made
\* and its handle returned ("new" does not return null).
audio_create(t, hr) ==
    /\ ComCallsMade < MaxComCalls
    /\ ~sessionAlive
    /\ EnsureComInitialized(t, hr)
    /\ sessionAlive' = TRUE
    /\ streamRunning' = FALSE
    /\ hostRet' = [op |-> "audio_create", val |-> TheSession]
    /\ UNCHANGED <<facadeVars, micVars, configVars, wrapperVars, hostPc, events,
                   hostError, cbVars, historyVars>>

\* audio_start_system_audio: "if (!handle) return -1", else the capture
\* object's StartSystemAudio and its status.
audio_start_system_audio(handle, status) ==
    /\ handle = NoHandle \/ ValidHandle(handle)
    /\ IF handle = NoHandle THEN UNCHANGED streamRunning
                            ELSE Capture_Start(status)
    /\ hostRet' = [op |-> "audio_start_system_audio",
                   val |-> audio_start(handle, status)]
    /\ UNCHANGED <<facadeVars, comVars, micVars, configVars, wrapperVars,
                   sessionAlive, hostPc, events, hostError, cbVars,
                   historyVars>>

\* audio_start_microphone: the same guard, then the capture object's
\* StartMicrophone.
audio_start_microphone(handle, status) ==
    /\ handle = NoHandle \/ ValidHandle(handle)
    /\ IF handle = NoHandle THEN UNCHANGED streamRunning
                            ELSE Capture_Start(status)
    /\ hostRet' = [op |-> "audio_start_microphone",
                   val |-> audio_start(handle, status)]
    /\ UNCHANGED <<facadeVars, comVars, micVars, configVars, wrapperVars,
                   sessionAlive, hostPc, events, hostError, cbVars,
                   historyVars>>

\* audio_stop as a call: "if (!handle) return -1; return capture->Stop()".
audio_stop_Call(handle, status) ==
    /\ handle = NoHandle \/ ValidHandle(handle)
    /\ IF handle = NoHandle THEN UNCHANGED streamRunning
                            ELSE Capture_Stop
    /\ hostRet' = [op |-> "audio_stop", val |-> audio_stop(handle, status)]
    /\ UNCHANGED <<facadeVars, comVars, micVars, configVars, wrapperVars,
                   sessionAlive, hostPc, events, hostError, cbVars,
                   historyVars>>

\* audio_is_running as a call: "if (!handle) return false; return
\* capture->IsRunning()".
audio_is_running_Call(handle) ==
    /\ handle = NoHandle \/ ValidHandle(handle)
    /\ hostRet' = [op |-> "audio_is_running",
                   val |-> audio_is_running(handle)]
    /\ UNCHANGED <<facadeVars, comVars, micVars, configVars, wrapperVars,
                   sessionVars, hostPc, events, hostError, cbVars,
                   historyVars>>

\* Mutant: audio_destroy does not test the handle.
audio_destroy_NullUnchecked(handle) ==
    /\ handle = NoHandle \/ ValidHandle(handle)
    /\ CallbacksQuiesced
    /\ audio_destroy_Stop
    /\ sessionAlive' = FALSE
    /\ deletedWhileRunning' = (deletedWhileRunning \/ streamRunning')
    /\ useAfterFree' = (useAfterFree \/ ~ValidHandle(handle))
    /\ destroyCalls' = destroyCalls + 1
    /\ hostRet' = [op |-> "audio_destroy", val |-> handle]
    /\ UNCHANGED <<facadeVars, comVars, micVars, configVars, wrapperVars, hostPc,
                   events, hostError, cbVars, calls, issued, pending,
                   accepted, drained, drainSnapshot, discarded,
                   lateAccepted, flagAtDestroy>>

\* audio_destroy: "if (!handle) return; capture->Stop(); delete capture".
\* It returns nothing; the handle it was given is recorded.
audio_destroy(handle) ==
    /\ handle = NoHandle \/ ValidHandle(handle)
    /\ CallbacksQuiesced
    /\ IF handle = NoHandle
         THEN UNCHANGED <<sessionVars, deletedWhileRunning, useAfterFree,
                          destroyCalls>>
         ELSE /\ audio_destroy_Stop
              /\ sessionAlive' = FALSE
              /\ deletedWhileRunning' = (deletedWhileRunning \/ streamRunning')
              /\ destroyCalls' = destroyCalls + 1
              /\ UNCHANGED useAfterFree
    /\ hostRet' = [op |-> "audio_destroy", val |-> handle]
    /\ UNCHANGED <<facadeVars, comVars, micVars, configVars, wrapperVars, hostPc,
                   events, hostError, cbVars, calls, issued, pending,
                   accepted, drained, drainSnapshot, discarded,
                   lateAccepted, flagAtDestroy>>

\* audio_mic_permission_status called on thread t: COM is ensured, then the
\* microphone status is returned.
audio_mic_permission_status(t, hr, status) ==
    /\ ComCallsMade < MaxComCalls
    /\ EnsureComInitialized(t, hr)
    /\ hostRet' = [op |-> "audio_mic_permission_status", val |-> status]
    /\ UNCHANGED <<facadeVars, micVars, configVars, wrapperVars, sessionVars, hostPc,
                   events, hostError, cbVars, historyVars>>

\* A DWORD: its top bit and its low 31 bits.
Dword(top, low) == [top |-> top, low |-> low]

\* Process ids a session reports: 0 (what a session of several processes
\* reports), 1, 2 and 2^31 + 1.
Pid0 == Dword(FALSE, 0)
Pid1 == Dword(FALSE, 1)
Pid2 == Dword(FALSE, 2)
PidTop == Dword(TRUE, 1)

\* static_cast<int32_t> of a DWORD.
DwordToInt32(pid) == IF pid.top THEN INT32_MIN + pid.low ELSE pid.low

\* ".exe" and "Unknown" in UTF-16 code units.
DotExe == <<46, 101, 120, 101>>
UnknownName == <<85, 110, 107, 110, 111, 119, 110>>

\* What OpenProcess and GetModuleBaseNameW give for a process id: process 1
\* is "r.exe", process 2^31 + 1 is ".exe", process 2 cannot be opened (the
\* empty name).
ModuleBaseName(pid) ==
    IF pid = Pid1 THEN <<114>> \o DotExe
    ELSE IF pid = PidTop THEN DotExe
    ELSE <<>>

\* GetProcessNameFromPid: the base name without a final ".exe".
GetProcessNameFromPid(pid) ==
    LET name == ModuleBaseName(pid)
        n == Len(name)
    IN  IF n >= 4 /\ SubSeq(name, n - 3, n) = DotExe
          THEN SubSeq(name, 1, n - 4)
          ELSE name

\* One session of the enumerator: whether GetSession gives it, whether it
\* is active, whether it has the IAudioSessionControl2 interface, whether it
\* is the system sounds session, whether GetProcessId succeeds, and the id.
Session(got, active, control2, system, pidOk, pid) ==
    [got |-> got, active |-> active, control2 |-> control2,
     system |-> system, pidOk |-> pidOk, pid |-> pid]

\* Mutant: a process id already collected is not looked for.
IsDuplicate_Never(activePids, pid) == FALSE

\* "for (DWORD existingPid : activePids) if (existingPid == pid) ...".
IsDuplicate(activePids, pid) ==
    \E i \in 1..Len(activePids) : activePids[i] = pid

\* The loop over the sessions: a session is skipped unless it is obtained,
\* active, has the interface, is not the system sounds, reports a nonzero
\* process id and that id is new; else its id and name are appended.
RECURSIVE CollectSessions(_, _)
CollectSessions(sessions, acc) ==
    IF sessions = <<>> THEN acc
    ELSE LET session == Head(sessions)
             skip == \/ ~session.got
                     \/ ~session.active
                     \/ ~session.control2
                     \/ session.system
                     \/ ~session.pidOk
                     \/ session.pid = Pid0
                     \/ IsDuplicate(acc.activePids, session.pid)
             procName == GetProcessNameFromPid(session.pid)
         IN  CollectSessions(Tail(sessions),
                 IF skip THEN acc
                 ELSE [activePids |-> Append(acc.activePids, session.pid),
                       activeNames |-> Append(acc.activeNames,
                            IF procName = <<>> THEN UnknownName
                                               ELSE procName)])

\* The return value and the caller's four variables after
\* mic_activity_get_active_processes(handle, pids, names, bundleIds, count).
MicActiveProcesses(call) ==
    LET env == call.env
        cleared == ZeroedOutputs
        collected == CollectSessions(env.sessions,
                         [activePids |-> <<>>, activeNames |-> <<>>])
        n == Len(collected.activePids)
    IN  IF ~(call.args.pids /\ call.args.names /\ call.args.bundleIds
                /\ call.args.count)
          THEN [ret |-> -1, out |-> call.prior]
        ELSE IF env.fails = "CoCreateInstance"
          THEN [ret |-> -1, out |-> cleared]
        ELSE IF env.fails = "GetDefaultAudioEndpoint"
          THEN [ret |-> 0, out |-> cleared]
        ELSE IF env.fails \in {"Activate", "GetSessionEnumerator"}
          THEN [ret |-> -1, out |-> cleared]
        ELSE IF env.fails = "GetCount" \/ Len(env.sessions) = 0
          THEN [ret |-> 0, out |-> cleared]
        ELSE IF n = 0
          THEN [ret |-> 0, out |-> cleared]
        ELSE IF env.malloc \in {"pids", "names", "bundleIds"}
          THEN [ret |-> -1, out |-> cleared]
        ELSE [ret |-> 0,
              out |-> [pids |-> MicArray([i \in 1..n |->
                            DwordToInt32(collected.activePids[i])]),
                       names |-> MicArray([i \in 1..n |->
                            IF env.malloc = "strings" THEN NullStr
                            ELSE CStr(Utf8(collected.activeNames[i]))]),
                       bundleIds |-> MicArray([i \in 1..n |->
                            IF env.malloc = "strings" THEN NullStr
                            ELSE CStr(<<>>)]),
                       count |-> n]]

\* mic_activity_get_active_processes called on thread t: with the four
\* output pointers it ensures COM after clearing the outputs; without one of
\* them it returns before.  One call is followed.
mic_activity_get_active_processes(t, hr, call) ==
    /\ micResult.op = "none"
    /\ LET result == MicActiveProcesses(call)
       IN  micResult' = [op |-> "mic_activity_get_active_processes",
                         call |-> call, ret |-> result.ret,
                         out |-> result.out]
    /\ IF call.args = AllOutputs
         THEN EnsureComInitialized(t, hr)
         ELSE UNCHANGED comVars
    /\ UNCHANGED <<bridgeVars, facadeVars>>

(* --------------------------- specifications ---------------------------- *)

\* Callback arguments of the bridge specification.
DataInputs == {<<0, 1, 2, 3>>}
EventInputs == {<<2, "device lost">>}
MetadataInputs == {<<44100, 2, 32, TRUE, "pcm_f32">>}

Callback(t) ==
    \/ \E data \in DataInputs : OnData(t, data)
    \/ \E e \in EventInputs : OnEvent(t, e[1], e[2])
    \/ \E m \in MetadataInputs : OnMetadata(t, m[1], m[2], m[3], m[4], m[5])
    \/ QueueEvent_Lock(t)
    \/ QueueEvent_Push(t)

ProcessEvents ==
    \/ DrainEvents_Lock
    \/ DrainEvents_Iterate
    \/ ProcessEvents_Return

Destructor ==
    \/ Destructor_SetFlag
    \/ Destructor_CallDestroy
    \/ audio_destroy_Delete
    \/ Destructor_ClearHandle
    \/ Destructor_Return

\* The bridge: construction, callbacks on every capture thread, drains and
\* the destructor.
Next ==
    \/ \E h \in CreateResults : Constructor(h)
    \/ \E t \in Producers : Callback(t)
    \/ ProcessEvents
    \/ Destructor

Spec == Init /\ [][Next]_vars

\* The session: one capture thread, and start / stop / isRunning beside the
\* bridge's operations.
SessionThread == CHOOSE t \in Producers : \A u \in Producers : t <= u

OptionsArgs == BOOLEAN

NextSession ==
    \/ \E h \in CreateResults : Constructor(h)
    \/ \E ok \in OptionsArgs, status \in StatusCodes : Start(ok, status)
    \/ \E status \in StatusCodes : Stop(status)
    \/ IsRunning
    \/ Callback(SessionThread)
    \/ ProcessEvents
    \/ Destructor

SpecSession == Init /\ [][NextSession]_vars

\* The bridge while the wrapper lives and the consumer keeps polling: a
\* thread that holds the mutex proceeds to release it, and processEvents is
\* called again and again and gets the mutex.  Data callbacks stand for all
\* three: each reaches QueueEvent through the same entry.
NextLive ==
    \/ \E h \in CreateResults : Constructor(h)
    \/ \E t \in Producers :
          \/ \E data \in DataInputs : OnData(t, data)
          \/ QueueEvent_Lock(t)
          \/ QueueEvent_Push(t)
    \/ ProcessEvents

FairLive ==
    /\ \A t \in Producers : WF_vars(QueueEvent_Push(t))
    /\ SF_vars(DrainEvents_Lock)
    /\ WF_vars(DrainEvents_Iterate)
    /\ WF_vars(ProcessEvents_Return)

SpecLive == Init /\ [][NextLive]_vars /\ FairLive

\* The session with its threads scheduled: a callback that has entered
\* QueueEvent takes the mutex when it is free and returns, and the destructor,
\* once it has begun, runs to its end.  When the finalizer begins is left open.
FairSession ==
    /\ WF_vars(QueueEvent_Lock(SessionThread))
    /\ WF_vars(QueueEvent_Push(SessionThread))
    /\ WF_vars(Destructor_CallDestroy)
    /\ WF_vars(audio_destroy_Delete)
    /\ WF_vars(Destructor_ClearHandle)
    /\ WF_vars(Destructor_Return)

SpecSessionLive == Init /\ [][NextSession]_vars /\ FairSession

\* Status codes of start over the range of int32_t: the small ones, the ends,
\* and values around the widths a narrower type would keep.
StartStatuses ==
    (-20..20) \cup
    {INT32_MIN, INT32_MIN + 1, -1000000000, -65536, -32768, -256, -128, -100,
     100, 127, 128, 255, 256, 32767, 32768, 65535, 65536, 1000000000,
     INT32_MAX - 1, INT32_MAX}

\* start / stop / isRunning alone, start over StartStatuses.
NextStatus ==
    \/ \E h \in CreateResults : Constructor(h)
    \/ \E ok \in OptionsArgs, status \in StartStatuses : Start(ok, status)
    \/ \E status \in StatusCodes : Stop(status)
    \/ IsRunning

SpecStatus == Init /\ [][NextStatus]_vars

\* Callback arguments over every event type, with empty data and null
\* strings among them.
DataPayloads == {<<>>, <<0, 1, 2, 3>>}
EventPayloads == {<<1, NullPtr>>, <<2, "device lost">>, <<2, NullPtr>>}
MetadataPayloads == {<<44100, 2, 32, TRUE, "pcm_f32">>,
                     <<48000, 1, 16, FALSE, NullPtr>>}

\* One capture thread delivering those, and the consumer draining.
NextPayload ==
    \/ \E h \in CreateResults : Constructor(h)
    \/ \E data \in DataPayloads : OnData(SessionThread, data)
    \/ \E e \in EventPayloads : OnEvent(SessionThread, e[1], e[2])
    \/ \E m \in MetadataPayloads :
          OnMetadata(SessionThread, m[1], m[2], m[3], m[4], m[5])
    \/ QueueEvent_Lock(SessionThread)
    \/ QueueEvent_Push(SessionThread)
    \/ ProcessEvents

SpecPayload == Init /\ [][NextPayload]_vars

\* The session's lifecycle event types: 0 = start, 1 = stop, 2 = error.
LifecycleTypes == {0, 1, 2}

\* One capture thread delivering data, every lifecycle event and metadata,
\* and the consumer draining.
NextTags ==
    \/ \E h \in CreateResults : Constructor(h)
    \/ \E data \in DataInputs : OnData(SessionThread, data)
    \/ \E eventType \in LifecycleTypes, message \in {NullPtr, "device lost"} :
          OnEvent(SessionThread, eventType, message)
    \/ \E m \in MetadataInputs :
          OnMetadata(SessionThread, m[1], m[2], m[3], m[4], m[5])
    \/ QueueEvent_Lock(SessionThread)
    \/ QueueEvent_Push(SessionThread)
    \/ ProcessEvents

SpecTags == Init /\ [][NextTags]_vars

\* Calls with and without their required argument: start with or without an
\* options object on a session that delivers data, permission requests with
\* or without a callback function, and the collaborator reporting decisions.
NextArguments ==
    \/ \E h \in CreateResults : Constructor(h)
    \/ \E ok \in OptionsArgs, status \in StatusCodes : Start(ok, status)
    \/ \E data \in DataInputs : OnData(SessionThread, data)
    \/ QueueEvent_Lock(SessionThread)
    \/ QueueEvent_Push(SessionThread)
    \/ \E r \in Requests, hasCallback \in BOOLEAN :
          RequestPermission_Call(r, hasCallback)
    \/ \E r \in Requests :
          \/ RequestPermission_Return(r)
          \/ \E granted \in BOOLEAN : Collaborator_Report(r, granted)

SpecArguments == Init /\ [][NextArguments]_vars

\* Values of an option that is to be a number or a boolean: absent, of the
\* right type, of another type.
NumberOptions(thousandths) ==
    {JsAbsent, JsNumber(thousandths), JsString("48000")}

BooleanOptions ==
    {JsAbsent, JsBoolean(TRUE), JsBoolean(FALSE), JsString("true")}

\* includeProcesses / excludeProcesses: absent, not an array, empty, with
\* entries that are not numbers, with fractions, negative numbers and NaN.
ProcessOptions ==
    {<<JsAbsent, JsAbsent>>,
     <<JsArray(<<JsNumber(1234000), JsString("x"), JsNumber(5678900)>>),
       JsNumber(42000)>>,
     <<JsArray(<<>>),
       JsArray(<<JsString("42"), JsBoolean(TRUE), JsUndefined>>)>>,
     <<JsArray(<<JsNaN, JsNumber(-1500)>>), JsArray(<<JsNumber(7000)>>)>>}

\* Arguments of start: no object, or an options object.
StartArgs ==
    {StartArg(FALSE, EmptyOptions)} \cup
    {StartArg(TRUE,
              [EmptyOptions EXCEPT
                  !.sampleRate = sampleRate, !.chunkDurationMs = chunk,
                  !.mute = mute, !.stereo = stereo,
                  !.includeProcesses = p[1], !.excludeProcesses = p[2]]) :
        sampleRate \in NumberOptions(48000000),
        chunk \in {JsAbsent, JsNumber(50000)},
        mute \in {JsAbsent, JsBoolean(TRUE), JsString("true")},
        stereo \in BooleanOptions,
        p \in ProcessOptions}

\* Arguments of startMicrophone.
MicrophoneArgs ==
    {StartArg(FALSE, EmptyOptions)} \cup
    {StartArg(TRUE,
              [EmptyOptions EXCEPT
                  !.sampleRate = sampleRate, !.chunkDurationMs = chunk,
                  !.stereo = stereo, !.deviceId = deviceId, !.gain = gain]) :
        sampleRate \in {JsAbsent, JsNumber(16000000)},
        chunk \in {JsAbsent, JsBoolean(TRUE)},
        stereo \in {JsAbsent, JsBoolean(TRUE)},
        deviceId \in {JsAbsent, JsString("mic-1"), JsString(""),
                      JsNumber(1000)},
        gain \in NumberOptions(2500)}

\* start and startMicrophone over their arguments, the session accepting.
NextConfig ==
    \/ \E h \in CreateResults : Constructor(h)
    \/ \E arg \in StartArgs : Start_Options(arg, 0)
    \/ \E arg \in MicrophoneArgs : StartMicrophone(arg, 0)

SpecConfig == Init /\ [][NextConfig]_vars

\* Teardown: callbacks of every kind on every capture thread while the
\* destructor runs; no drain.
NextTeardown ==
    \/ \E h \in CreateResults : Constructor(h)
    \/ \E t \in Producers : Callback(t)
    \/ Destructor

SpecTeardown == Init /\ [][NextTeardown]_vars

\* The queue's users: data callbacks on every capture thread, drains and the
\* destructor.
NextQueue ==
    \/ NextLive
    \/ Destructor

SpecQueue == Init /\ [][NextQueue]_vars

\* Producers, the consumer's drains and successful start / stop / isRunning
\* calls on the consumer thread.  A callback waiting for the mutex gets it when it is
\* free again and again, and whoever holds the mutex proceeds to release it;
\* whether the consumer ever calls processEvents again is left open.
NextNoWait ==
    \/ \E h \in CreateResults : Constructor(h)
    \/ Start(TRUE, 0)
    \/ Stop(0)
    \/ IsRunning
    \/ \E t \in Producers :
          \/ \E data \in DataInputs : OnData(t, data)
          \/ QueueEvent_Lock(t)
          \/ QueueEvent_Push(t)
    \/ ProcessEvents

FairNoWait ==
    /\ \A t \in Producers :
          /\ SF_vars(QueueEvent_Lock(t))
          /\ WF_vars(QueueEvent_Push(t))
    /\ WF_vars(DrainEvents_Iterate)
    /\ WF_vars(ProcessEvents_Return)

SpecNoWait == Init /\ [][NextNoWait]_vars /\ FairNoWait

\* The permission requests: the calls, the collaborator reporting each
\* decision once, the native callbacks on their threads and the queued calls
\* on the JavaScript thread.  A request that was called returns, a native
\* callback that was invoked runs to its end, and the event loop serves a
\* thread-safe function that has work once the JavaScript thread is idle;
\* when the user decides is left open.
NextPermission ==
    \/ \E r \in Requests, hasCallback \in BOOLEAN :
          RequestPermission_Call(r, hasCallback)
    \/ \E r \in Requests :
          \/ RequestPermission_Return(r)
          \/ \E granted \in BOOLEAN : Collaborator_Report(r, granted)
          \/ PermissionRequestCallback_BlockingCall(r)
          \/ PermissionRequestCallback_Release(r)
          \/ PermissionRequestCallback_Delete(r)
          \/ Tsfn_Dispatch(r)
          \/ Tsfn_Finalize(r)

FairPermission ==
    \A r \in Requests :
        /\ WF_vars(RequestPermission_Return(r))
        /\ WF_vars(PermissionRequestCallback_BlockingCall(r))
        /\ WF_vars(PermissionRequestCallback_Release(r))
        /\ WF_vars(PermissionRequestCallback_Delete(r))
        /\ WF_vars(Tsfn_Dispatch(r))
        /\ WF_vars(Tsfn_Finalize(r))

SpecPermission == Init /\ [][NextPermission]_vars /\ FairPermission

\* The permission requests with status queries between their steps.
NextPermissionStatus ==
    \/ NextPermission
    \/ \E status \in PermissionStatuses : GetPermissionStatus(status)

SpecPermissionStatus == Init /\ [][NextPermissionStatus]_vars

\* The device functions, each call on an outcome of its collaborator.
NextDevices ==
    \/ \E o \in ListOutcomes : ListDevices(o)
    \/ \E id \in DeviceIds, converts \in BOOLEAN :
          \/ GetDefaultInputDevice(id, converts)
          \/ GetDefaultOutputDevice(id, converts)

SpecDevices == Init /\ [][NextDevices]_vars

\* The Windows session functions called directly with a null handle or the
\* handle of a live capture object.
NextWindows ==
    \/ \E t \in Threads, hr \in HResults : audio_create(t, hr)
    \/ \E handle \in CreateResults :
          \/ \E status \in StatusCodes :
                \/ audio_start_system_audio(handle, status)
                \/ audio_start_microphone(handle, status)
                \/ audio_stop_Call(handle, status)
          \/ audio_is_running_Call(handle)
          \/ audio_destroy(handle)

SpecWindows == Init /\ [][NextWindows]_vars

\* The Windows functions that ensure COM, called from any thread with any
\* outcome of CoInitializeEx.
NextCom ==
    \/ \E t \in Threads, hr \in HResults :
          \/ audio_create(t, hr)
          \/ \E status \in {0, 2} : audio_mic_permission_status(t, hr, status)
    \/ audio_destroy(TheSession)

SpecCom == Init /\ [][NextCom]_vars

\* The sessions an enumerator may hold, one of each way the loop treats a
\* session.
SessionKinds ==
    {Session(FALSE, FALSE, FALSE, FALSE, FALSE, Pid0),
     Session(TRUE, FALSE, TRUE, FALSE, TRUE, Pid1),
     Session(TRUE, TRUE, FALSE, FALSE, FALSE, Pid0),
     Session(TRUE, TRUE, TRUE, TRUE, TRUE, Pid1),
     Session(TRUE, TRUE, TRUE, FALSE, FALSE, Pid2),
     Session(TRUE, TRUE, TRUE, FALSE, TRUE, Pid0),
     Session(TRUE, TRUE, TRUE, FALSE, TRUE, Pid1),
     Session(TRUE, TRUE, TRUE, FALSE, TRUE, Pid2),
     Session(TRUE, TRUE, TRUE, FALSE, TRUE, PidTop)}

MicFailures == {"CoCreateInstance", "GetDefaultAudioEndpoint", "Activate",
                "GetSessionEnumerator", "GetCount"}

MallocFailures == {"none", "pids", "names", "bundleIds", "strings"}

MicPriors == {ZeroedOutputs, StaleOutputs}

MicCall(args, prior, env) == [args |-> args, prior |-> prior, env |-> env]

\* Calls with every output pointer where a COM step fails, such calls where
\* the enumerator gives a list of sessions, and calls that lack some output
\* pointer.
NextMic ==
    /\ micResult.op = "none"
    /\ \E t \in Threads, hr \in HResults, prior \in MicPriors :
        \/ \E fails \in MicFailures :
              mic_activity_get_active_processes(t, hr,
                  MicCall(AllOutputs, prior, MicEnv(fails, <<>>, "none")))
        \/ \E n \in 0..MaxSessions :
              \E sessions \in [1..n -> SessionKinds],
                 malloc \in MallocFailures :
                  mic_activity_get_active_processes(t, hr,
                      MicCall(AllOutputs, prior,
                              MicEnv("none", sessions, malloc)))
        \/ \E args \in [{"pids", "names", "bundleIds", "count"} -> BOOLEAN]
                          \ {AllOutputs} :
              mic_activity_get_active_processes(t, hr,
                  MicCall(args, prior, MicEnv("none", <<>>, "none")))

SpecMic == Init /\ [][NextMic]_vars

(* ------------------------------- claims -------------------------------- *)

NoDuplicates(ids) == \A i, j \in 1..Len(ids) : ids[i] = ids[j] => i = j

ThreadsOf(ids) == {ids[i][1] : i \in 1..Len(ids)}

\* The accepted ids that no drain has returned yet.
Undrained == SubSeq(accepted, Len(drained) + 1, Len(accepted))

\* C1: on a bridge that is not destroyed, the drain results so far, followed
\* by what the running drain has taken and by what is still queued, are the
\* accepted events in the order of their pushes: nothing is reordered, merged
\* or dropped.
C1_FifoOrder ==
    ~isDestroyed_ => drained \o Ids(events) \o Ids(eventQueue_) = accepted

C1_Witness ==
    /\ ~isDestroyed_
    /\ hostRet.op = "processEvents"
    /\ Len(hostRet.val) >= 1
    /\ Len(drained) > Len(hostRet.val)
    /\ eventQueue_ # <<>>
    /\ Cardinality(ThreadsOf(accepted)) >= 2

\* C2: one drain made after all producers have returned (no callback in
\* flight, nothing drained before) holds, for every producer, exactly the
\* events that producer handed to QueueEvent, each once and in the order the
\* producer issued them.
C2_SingleDrainAfterProducers ==
    (/\ hostPc = "DrainEvents_loop"
     /\ eventQueue_ = <<>>
     /\ drained = <<>>
     /\ CallbacksQuiesced)
    => /\ \A t \in Producers : FromThread(Ids(events), t) = issued[t]
       /\ ThreadsOf(Ids(events)) \subseteq Producers

C2_Witness ==
    /\ hostPc = "DrainEvents_loop"
    /\ eventQueue_ = <<>>
    /\ drained = <<>>
    /\ CallbacksQuiesced
    /\ Len(events) >= 3
    /\ Cardinality(ThreadsOf(Ids(events))) >= 2

\* C3: after destroy a drain returns nothing that a callback tried to enqueue
\* concurrently with or after destroy, so that a bridge with nothing queued
\* when destroy began drains empty.
C3_LateEnqueueDiscarded ==
    hostPc = "dtor_end" =>
        \A i \in 1..Len(DrainEventsResult(eventQueue_)) :
            \A j \in 1..Len(lateAccepted) :
                DrainEventsResult(eventQueue_)[i].id # lateAccepted[j]

C5_FlagBeforeDestroy ==
    /\ flagAtDestroy
    /\ hostPc = "audio_destroy_delete" => isDestroyed_

C5_Witness ==
    /\ hostPc = "audio_destroy_delete"
    /\ destroyCalls = 1
    /\ ~CallbacksQuiesced

\* C6: a callback that begins while the destroyed flag is set returns at
\* once: the queue, the pushes so far, every thread's position and the
\* pending host error are as before.
C6_DiscardAfterDestroyed ==
    [][(calls' # calls /\ isDestroyed_) =>
          /\ eventQueue_' = eventQueue_
          /\ accepted' = accepted
          /\ cbPc' = cbPc
          /\ discarded' = discarded + 1
          /\ hostError' = hostError]_vars

C6_Witness ==
    /\ discarded >= 2
    /\ eventQueue_ # <<>>
    /\ isDestroyed_

C8_DrainAtomic ==
    /\ hostPc = "DrainEvents_loop"
          => Ids(events) \o Ids(eventQueue_) = drainSnapshot
    /\ NoDuplicates(drained \o Ids(events) \o Ids(eventQueue_))
    /\ \A i \in 1..Len(accepted) :
          \E j \in 1..Len(drained \o Ids(events) \o Ids(eventQueue_)) :
              (drained \o Ids(events) \o Ids(eventQueue_))[j] = accepted[i]

C8_Witness ==
    /\ hostPc = "DrainEvents_loop"
    /\ eventQueue_ = <<>>
    /\ Len(events) >= 1
    /\ drained # <<>>
    /\ \E t \in Producers : cbPc[t] = "QueueEvent_lock"

\* C9: the session handle is passed to the session's destroy at most once,
\* exactly once by the end of the destructor when creation succeeded, and the
\* capture is not running when it is deleted.
C9_DestroyOnceWhenStopped ==
    /\ destroyCalls <= 1
    /\ (hostPc \in {"dtor_end", "freed"} /\ hostError.name # "CreationError")
          => destroyCalls = 1
    /\ ~deletedWhileRunning
    /\ (~sessionAlive /\ destroyCalls = 1) => ~streamRunning

C9_Witness ==
    /\ hostPc = "freed"
    /\ destroyCalls = 1
    /\ hostRet.op = "start"
    /\ hostError = NoError

\* C10: while the wrapper lives and the consumer keeps draining, every
\* accepted event is eventually returned by a drain.
C10_EventuallyDrained ==
    \A n \in 1..MaxCalls : (Len(accepted) >= n) ~> (Len(drained) >= n)

C10_Witness ==
    /\ Len(accepted) = MaxCalls
    /\ drained = accepted
    /\ hostRet.op = "processEvents"
    /\ Len(hostRet.val) = 1

\* C11: a start for which the session reports a nonzero status, on a
\* session that was not running, throws the start error and returns null; the
\* session is not running afterwards, so that isRunning returns false; and
\* the wrapper is where start can be called again (idle, same handle).
C11_FailedStartNotRunning ==
    /\ [][\A status \in StatusCodes :
            (Start(TRUE, status) /\ status # 0 /\ ~streamRunning) =>
                /\ hostError'.name = "StartError"
                /\ hostRet' = [op |-> "start", val |-> "null"]
                /\ ~streamRunning'
                /\ hostPc' = "idle"
                /\ handle_' = handle_
                /\ isDestroyed_' = isDestroyed_]_vars
    /\ [][(IsRunning /\ ~streamRunning) =>
            hostRet' = [op |-> "isRunning", val |-> FALSE]]_vars

C11_Witness ==
    /\ hostRet.op = "start"
    /\ hostError =
          JsError("StartError", <<"Failed to start AudioTee: error code ", "2">>)
    /\ ~streamRunning
    /\ hostPc = "idle"
    /\ sessionAlive

\* C12 as claimed: when stop has returned the session is not running and no
\* exception is pending, whatever status the session reported.
C12_StopNeverThrows ==
    hostRet.op = "stop" => (~streamRunning /\ hostError = NoError)

\* C12 as amended: stop leaves the session not running and returns undefined
\* whatever the status, and a nonzero status is thrown to the caller as
\* "Failed to stop AudioTee" (without the code); the wrapper stays usable.
C12_StopThrowsOnFailure ==
    [][\A status \in StatusCodes :
          Stop(status) =>
              /\ ~streamRunning'
              /\ hostRet' = [op |-> "stop", val |-> "undefined"]
              /\ hostError' =
                    IF status # 0
                      THEN JsError("StopError", <<"Failed to stop AudioTee">>)
                      ELSE NoError
              /\ hostPc' = "idle"
              /\ handle_' = handle_]_vars

C12_Witness ==
    /\ hostRet.op = "stop"
    /\ hostError.name = "StopError"
    /\ ~streamRunning
    /\ hostPc = "idle"
    /\ accepted # <<>>

\* C13: in every lifecycle state of the wrapper (created, running, stopped,
\* failed to create; also after a failed start or stop) the destructor can
\* begin; once begun it reaches its end with the session released; and once
\* the flag is set it stays set, the stream is never started again and no
\* host call returns or throws anything.
C13_DestroyAlwaysReachable ==
    /\ [](hostPc \in {"idle", "failed"} => ENABLED Destructor_SetFlag)
    /\ isDestroyed_ ~> (hostPc = "freed" /\ handle_ = NoHandle /\ ~sessionAlive)
    /\ [][isDestroyed_ =>
            /\ isDestroyed_'
            /\ streamRunning' => streamRunning
            /\ hostRet' = hostRet
            /\ hostError' = hostError
            /\ hostPc = "freed" => hostPc' = "freed"]_vars

C13_Witness ==
    /\ hostPc = "freed"
    /\ hostRet.op = "stop"
    /\ hostError.name = "StopError"
    /\ lateAccepted # <<>>

\* C14: when create returned null the constructor has thrown the creation
\* error, the wrapper is never running and has returned nothing to the host,
\* and its destructor does not call the session's destroy.
C14_NullCreate ==
    /\ (hostPc # "new" /\ handle_ = NoHandle /\ ~isDestroyed_)
          => (hostPc = "failed" /\ hostError.name = "CreationError")
    /\ hostError.name = "CreationError"
          => /\ handle_ = NoHandle
             /\ ~sessionAlive
             /\ ~streamRunning
             /\ hostRet.op = "none"
             /\ destroyCalls = 0
             /\ hostPc \in {"failed", "dtor_if_handle", "dtor_end", "freed"}

C14_Witness ==
    /\ hostPc = "freed"
    /\ hostError =
          JsError("CreationError", <<"Failed to create AudioTee session">>)
    /\ destroyCalls = 0

\* The events the bridge holds: being pushed, queued, or taken by the running
\* drain.
HeldEvents ==
    {cbEvent[t] : t \in {u \in Producers : cbPc[u] # "idle"}}
        \cup {eventQueue_[i] : i \in 1..Len(eventQueue_)}
        \cup {events[i] : i \in 1..Len(events)}

\* The arguments of the callback invocation that built the event with this id.
ArgsOf(id) == CHOOSE a \in pending : a.id = id

\* C15: the constructor, start and stop report a failure by the exception
\* they leave pending and never touch the queue: every event the bridge holds
\* was built by a callback.  A callback, whatever it reports, leaves the
\* host's pending exception and return value alone; a stream error shows to
\* the host only as an object of type 3 with the message, in the result of a
\* drain that itself throws nothing.
C15_ErrorChannels ==
    /\ [](\A ev \in HeldEvents : \E a \in pending : a.id = ev.id)
    /\ [](hostRet.op = "processEvents" => hostError = NoError)
    /\ [][((\E h \in CreateResults : Constructor(h))
             \/ (\E ok \in OptionsArgs, status \in StatusCodes : Start(ok, status))
             \/ (\E status \in StatusCodes : Stop(status)))
            => /\ eventQueue_' = eventQueue_
               /\ events' = events
               /\ cbVars' = cbVars
               /\ accepted' = accepted]_vars
    /\ [][(calls' # calls \/ cbPc' # cbPc)
            => (hostError' = hostError /\ hostRet' = hostRet)]_vars
    /\ [][(hostPc = "DrainEvents_loop" /\ hostPc' = "idle") =>
            \A i \in 1..Len(events) :
                (ArgsOf(events[i].id).callback = "OnEvent"
                    /\ ArgsOf(events[i].id).eventType = 2)
                => hostRet'.val[i] =
                      [type |-> 3,
                       message |-> IF ArgsOf(events[i].id).message = NullPtr
                                     THEN ""
                                     ELSE ArgsOf(events[i].id).message]]_vars

C15_Witness ==
    /\ hostRet.op = "processEvents"
    /\ \E i \in 1..Len(hostRet.val) :
          hostRet.val[i] = [type |-> 3, message |-> "device lost"]
    /\ hostError = NoError
    /\ streamRunning

\* The value of a decimal digit character.
DigitValue(c) == CHOOSE d \in 0..9 : DigitChar(d) = c

\* The negated value of a digit string, most significant digit first, after
\* the digits already read gave -acc.
RECURSIVE NegatedValue(_, _)
NegatedValue(chars, acc) ==
    IF chars = <<>> THEN acc
    ELSE NegatedValue(Tail(chars), acc * 10 - DigitValue(Head(chars)))

\* The host reads the characters as the decimal numeral of n: a "-" and the
\* digits of the magnitude, or the digits alone for a value that is not
\* negative (INT32_MIN is not the negation of any int32_t).
ReadsAs(chars, n) ==
    IF Head(chars) = "-"
      THEN NegatedValue(Tail(chars), 0) = n
      ELSE n > INT32_MIN /\ NegatedValue(chars, 0) = -n

\* C16: a start for which the session reports a nonzero status throws an
\* error whose message is "Failed to start AudioTee: error code " followed
\* by a decimal numeral that reads back as that status, for statuses over the
\* whole range of int32_t.
C16_StatusVerbatim ==
    [][\A status \in StartStatuses :
          (Start(TRUE, status) /\ status # 0) =>
              /\ hostError'.name = "StartError"
              /\ Head(hostError'.message) = "Failed to start AudioTee: error code "
              /\ ReadsAs(Tail(hostError'.message), status)]_vars

C16_Witness ==
    /\ hostRet.op = "start"
    /\ hostError =
          JsError("StartError",
                  <<"Failed to start AudioTee: error code ",
                    "-", "2", "1", "4", "7", "4", "8", "3", "6", "4", "8">>)
    /\ streamRunning

\* C17: processEvents is served in every state of a live wrapper (created,
\* running, stopped) as soon as the mutex is free; none of its steps changes
\* the handle, the flag, the session or what was pushed, and none throws:
\* after it returned no exception is pending.
C17_DrainFrame ==
    /\ []((hostPc = "idle" /\ eventMutex_ = "unlocked")
            => ENABLED DrainEvents_Lock)
    /\ [][ProcessEvents =>
            /\ handle_' = handle_
            /\ isDestroyed_' = isDestroyed_
            /\ sessionVars' = sessionVars
            /\ accepted' = accepted
            /\ hostError' \in {hostError, NoError}
            /\ Ids(events') \o Ids(eventQueue_') = Ids(events) \o Ids(eventQueue_)
                  \/ (events' = <<>> /\ eventQueue_' = <<>>)]_vars
    /\ [](hostRet.op = "processEvents" => hostError = NoError)

C17_Witness ==
    /\ hostRet.op = "processEvents"
    /\ Len(hostRet.val) >= 1
    /\ hostPc = "DrainEvents_loop"
    /\ events # <<>>
    /\ streamRunning
    /\ ~isDestroyed_

\* C18: a drain that found the queue empty when it locked returns an empty
\* array and leaves the bridge as the drain found it: queue empty, mutex
\* free, handle, flag and the drain results so far unchanged; and so does the
\* next one when nothing was pushed in between.
C18_EmptyDrainIdempotent ==
    [][(hostPc = "DrainEvents_loop" /\ hostPc' = "idle" /\ drainSnapshot = <<>>)
          => /\ hostRet' = [op |-> "processEvents", val |-> <<>>]
             /\ hostError' = NoError
             /\ eventQueue_' = <<>>
             /\ eventMutex_' = "unlocked"
             /\ handle_' = handle_
             /\ isDestroyed_' = isDestroyed_
             /\ drained' = drained
             /\ pending' = pending]_vars

C18_Witness ==
    /\ hostPc = "DrainEvents_loop"
    /\ drainSnapshot = <<>>
    /\ hostRet = [op |-> "processEvents", val |-> <<>>]
    /\ accepted = <<>>
    /\ ~isDestroyed_
    /\ \E t \in Producers : cbPc[t] = "QueueEvent_lock"

\* The object the host is to see for a callback invocation with arguments a:
\* the variant and the payload the callback was given, a null string as "".
ExpectedObject(a) ==
    CASE a.callback = "OnData" -> [type |-> 0, data |-> a.data]
      [] a.callback = "OnMetadata" ->
            [type |-> 4, sampleRate |-> a.sampleRate,
             channelsPerFrame |-> a.channelsPerFrame,
             bitsPerChannel |-> a.bitsPerChannel, isFloat |-> a.isFloat,
             encoding |-> IF a.encoding = NullPtr THEN "" ELSE a.encoding]
      [] a.callback = "OnEvent" /\ a.eventType = 2 ->
            [type |-> 3,
             message |-> IF a.message = NullPtr THEN "" ELSE a.message]
      [] a.callback = "OnEvent" /\ a.eventType = 1 -> [type |-> 2]
      [] a.callback = "OnEvent" /\ a.eventType = 0 -> [type |-> 1]

\* The arguments of the scenario: Metadata, then Data [0,1,2,3], then
\* Stopped, from one thread.
ScenarioArgs ==
    {[BlankArgs(<<SessionThread, 1>>) EXCEPT
          !.callback = "OnMetadata", !.sampleRate = 44100,
          !.channelsPerFrame = 2, !.bitsPerChannel = 32, !.isFloat = TRUE,
          !.encoding = "pcm_f32"],
     [BlankArgs(<<SessionThread, 2>>) EXCEPT
          !.callback = "OnData", !.data = <<0, 1, 2, 3>>],
     [BlankArgs(<<SessionThread, 3>>) EXCEPT
          !.callback = "OnEvent", !.eventType = 1, !.message = NullPtr]}

ScenarioResult ==
    <<[type |-> 4, sampleRate |-> 44100, channelsPerFrame |-> 2,
       bitsPerChannel |-> 32, isFloat |-> TRUE, encoding |-> "pcm_f32"],
      [type |-> 0, data |-> <<0, 1, 2, 3>>],
      [type |-> 2]>>

\* C19: every object a drain returns is the variant and payload of the
\* callback invocation that built its event, one object per event taken; and
\* when Metadata, Data [0,1,2,3] and Stopped were delivered in that order and
\* are all queued, the drain returns exactly these three in that order.
C19_PayloadPreserved ==
    [][(hostPc = "DrainEvents_loop" /\ hostPc' = "idle") =>
          /\ Len(hostRet'.val) = Len(events)
          /\ \A i \in 1..Len(events) :
                hostRet'.val[i] = ExpectedObject(ArgsOf(events[i].id))
          /\ (pending = ScenarioArgs /\ CallbacksQuiesced)
                => hostRet'.val = ScenarioResult]_vars

C19_Witness ==
    /\ hostRet.op = "processEvents"
    /\ hostRet.val = ScenarioResult
    /\ Len(drained) = 3

\* C20: a data callback of length 0 on a bridge that is not destroyed hands
\* one event of type 0 with empty data to QueueEvent; each such invocation
\* has its own event in the bridge until a drain returns it, as an object of
\* type 0 with an empty buffer.
C20_EmptyDataForwarded ==
    /\ [][\A t \in Producers :
            (OnData(t, <<>>) /\ ~isDestroyed_) =>
                /\ cbPc'[t] = "QueueEvent_lock"
                /\ cbEvent'[t].type = 0
                /\ cbEvent'[t].data = <<>>
                /\ Len(issued'[t]) = Len(issued[t]) + 1]_vars
    /\ [](\A a \in pending :
            (a.callback = "OnData" /\ a.data = <<>>) =>
                \E ev \in HeldEvents :
                    ev.id = a.id /\ ev.type = 0 /\ ev.data = <<>>)
    /\ [](Cardinality(HeldEvents) = Cardinality(pending))
    /\ [][(hostPc = "DrainEvents_loop" /\ hostPc' = "idle") =>
            /\ Len(hostRet'.val) = Len(events)
            /\ \A i \in 1..Len(events) :
                  (events[i].type = 0 /\ events[i].data = <<>>)
                      => hostRet'.val[i] = [type |-> 0, data |-> <<>>]]_vars

C20_Witness ==
    /\ hostRet.op = "processEvents"
    /\ hostRet.val = <<[type |-> 0, data |-> <<>>], [type |-> 0, data |-> <<>>]>>
    /\ eventQueue_ # <<>>

\* The collaborator has reported the decision of request r / what it reported.
Reported(r) == request[r].decision # "undecided"

GrantedOf(r) == request[r].decision = "granted"

\* The calls queued for the host callback of r and those that already ran.
CallsMade(r) == Len(tsfns[r].queue) + Len(hostCallbacks[r])

\* C21: for a request whose native callback the collaborator invokes once,
\* the host callback runs at most once and with the reported value; the
\* thread-safe function is released and the context deleted at most once
\* each, the release after the call was queued and the delete after the
\* release, with no use of a freed object; and once the decision is
\* reported the request ends with the host callback run once, the context
\* deleted and the thread-safe function finalized.
C21_OneShotDelivery ==
    /\ [](\A r \in Requests :
            /\ Len(hostCallbacks[r]) <= 1
            /\ hostCallbacks[r] # <<>> => hostCallbacks[r] = <<GrantedOf(r)>>
            /\ releaseCalls[r] <= 1
            /\ deleteCalls[r] <= 1
            /\ releaseCalls[r] = 1 => CallsMade(r) = 1
            /\ deleteCalls[r] = 1 => releaseCalls[r] = 1
            /\ native[r].pc = "done"
                  => (contexts[r].state = "deleted" /\ tsfns[r].threads = 0)
            /\ tsfns[r].state = "finalized"
                  => hostCallbacks[r] = <<GrantedOf(r)>>)
    /\ [](~permFault)
    /\ \A r \in Requests :
          Reported(r) ~> (/\ hostCallbacks[r] = <<GrantedOf(r)>>
                          /\ contexts[r].state = "deleted"
                          /\ tsfns[r].state = "finalized")

C21_Witness ==
    /\ hostCallbacks[1] = <<TRUE>>
    /\ contexts[1].state = "deleted"
    /\ tsfns[1].state = "finalized"
    /\ releaseCalls[1] = 1
    /\ deleteCalls[1] = 1

\* C22: with several requests in flight, whatever the order of the reports
\* and of the threads, a host callback only ever gets the value reported for
\* its own request, and the context and thread-safe function of a request
\* stay alive until that request's own native callback releases them.
C22_NoCrossTalk ==
    /\ \A r \in Requests :
          \A i \in 1..Len(hostCallbacks[r]) :
              Reported(r) /\ hostCallbacks[r][i] = GrantedOf(r)
    /\ \A r \in Requests :
          \A i \in 1..Len(tsfns[r].queue) :
              Reported(r) /\ tsfns[r].queue[i] = GrantedOf(r)
    /\ \A r \in Requests :
          (request[r].pc \in {"in_request", "returned"}
              /\ native[r].pc \in {"none", "BlockingCall"})
          => /\ contexts[r] = [state |-> "live", tsfn |-> r]
             /\ tsfns[r].state = "open"
             /\ tsfns[r].threads = 1
             /\ releaseCalls[r] = 0
             /\ deleteCalls[r] = 0
    /\ Len(deliveryOrder) <= Cardinality({r \in Requests : Reported(r)})

C22_Witness ==
    /\ deliveryOrder = <<2, 1>>
    /\ hostCallbacks[1] = <<TRUE>>
    /\ hostCallbacks[2] = <<FALSE>>
    /\ tsfns[1].state = "finalized"
    /\ tsfns[2].state = "finalized"

\* C23: a request that has called the collaborator can return whether or not
\* the decision has been reported, and does return; the host callback never
\* runs inside the request call, only later from the JavaScript thread's
\* queue, and it does run once the decision is reported.
C23_ReturnsBeforeResult ==
    /\ [](\A r \in Requests :
            request[r].pc = "in_request" => ENABLED RequestPermission_Return(r))
    /\ [][\A r \in Requests :
            Len(hostCallbacks'[r]) > Len(hostCallbacks[r])
                => (jsThread = 0 /\ request[r].pc = "returned")]_vars
    /\ \A r \in Requests :
          (request[r].pc = "in_request") ~> (request[r].pc = "returned")
    /\ \A r \in Requests : Reported(r) ~> (hostCallbacks[r] # <<>>)

C23_Witness ==
    /\ request[1].pc = "returned"
    /\ request[1].decision = "undecided"
    /\ request[2].pc = "returned"
    /\ hostCallbacks[2] # <<>>

\* C24: the status query returns "unknown" for 0, "denied" for 1,
\* "authorized" for 2 and "unknown" for every other int32_t, throws nothing,
\* and changes nothing but its return value.
C24_StatusMapping ==
    [][\A status \in PermissionStatuses :
          GetPermissionStatus(status) =>
              /\ facadeRet'.op = "getPermissionStatus"
              /\ facadeRet'.val \in {"unknown", "denied", "authorized"}
              /\ status = 1 => facadeRet'.val = "denied"
              /\ status = 2 => facadeRet'.val = "authorized"
              /\ status \notin {1, 2} => facadeRet'.val = "unknown"
              /\ facadeError' = NoError
              /\ UNCHANGED <<bridgeVars, permVars, deviceVars>>]_vars

C24_Witness ==
    /\ facadeRet = [op |-> "getPermissionStatus", val |-> "authorized"]
    /\ \E r \in Requests : native[r].pc = "Release"

\* Every block the collaborator allocated was freed once and nothing else
\* was freed.
HeapBalanced ==
    \A h \in Handles :
        deviceHeap[h].frees = (IF deviceHeap[h].allocated THEN 1 ELSE 0)

\* C25: after listDevices, whatever the collaborator returned (any status,
\* any count, null or non-null array), every block it allocated has been
\* freed exactly once and nothing else has been freed, and a count of zero
\* gives an empty sequence without an error.
C25_EveryAllocationFreedOnce ==
    deviceRet.op = "listDevices" =>
        /\ HeapBalanced
        /\ deviceOutcome.count = 0
              => (deviceRet.list = <<>> /\ facadeError = NoError)

\* C26: when the enumeration succeeded with an array of count records,
\* listDevices returns count objects in the array's order, each with the
\* strings and values of its record, an empty string standing for a null
\* string pointer, and throws nothing.
C26_OneRecordPerDevice ==
    (/\ deviceRet.op = "listDevices"
     /\ deviceOutcome.status = 0
     /\ deviceOutcome.devices # NullHandle
     /\ deviceOutcome.count > 0)
    => /\ facadeError = NoError
       /\ Len(deviceRet.list) = deviceOutcome.count
       /\ \A i \in 1..deviceOutcome.count :
            LET d == deviceRet.list[i]
                b == deviceOutcome.buffer[i]
            IN  /\ d.id = IF b.o0 = NullHandle THEN <<>> ELSE <<"uid", i>>
                /\ d.name = IF b.o8 = NullHandle THEN <<>> ELSE <<"name", i>>
                /\ d.manufacturer = IF b.o16 = NullHandle
                                    THEN <<>>
                                    ELSE <<"manufacturer", i>>
                /\ d.isDefault = b.o24
                /\ d.isInput = b.o25
                /\ d.isOutput = b.o26
                /\ d.sampleRate = b.o32
                /\ d.channelCount = b.o40

C26_Witness ==
    /\ deviceRet.op = "listDevices"
    /\ Len(deviceRet.list) = 2
    /\ deviceRet.list[1].id = <<>>
    /\ deviceRet.list[1].name = <<"name", 1>>
    /\ deviceRet.list[2].id = <<"uid", 2>>
    /\ deviceRet.list[2].name = <<>>
    /\ facadeError = NoError

\* C27: a default-device query whose collaborator returned no string
\* returns null and frees nothing; one whose collaborator returned a string
\* returns that string's content and frees the string exactly once; neither
\* throws.
C27_DefaultDevice ==
    deviceRet.op \in {"getDefaultInputDevice", "getDefaultOutputDevice"}
    => /\ facadeError = NoError
       /\ IF deviceOutcome.uid = NullHandle
          THEN /\ deviceRet.isNull
               /\ \A h \in Handles : deviceHeap[h].frees = 0
          ELSE /\ ~deviceRet.isNull
               /\ deviceRet.id = deviceOutcome.text
               /\ deviceRet.id # <<>>
               /\ deviceHeap[deviceOutcome.uid].allocated
               /\ \A h \in Handles :
                    deviceHeap[h].frees
                        = (IF h = deviceOutcome.uid THEN 1 ELSE 0)

C27_Witness ==
    /\ deviceRet.op = "getDefaultInputDevice"
    /\ ~deviceRet.isNull
    /\ deviceRet.id = <<226, 130, 172>>
    /\ deviceHeap[UidHandle].frees = 1

\* C28: a callback of any of the three kinds that arrives while the flag is
\* set and another thread holds the queue mutex can run at once; a callback
\* entry never changes the mutex or the queue; with the flag set it only
\* counts as discarded, no event is built and no lock is asked for; with the
\* flag clear it goes on to ask for the lock.
C28_FlagCheckFirst ==
    /\ [](\A t \in Producers :
            (CallbackMayFire(t) /\ isDestroyed_ /\ eventMutex_ = "locked")
            => /\ ENABLED (\E data \in DataInputs : OnData(t, data))
               /\ ENABLED (\E e \in EventInputs : OnEvent(t, e[1], e[2]))
               /\ ENABLED (\E m \in MetadataInputs :
                             OnMetadata(t, m[1], m[2], m[3], m[4], m[5])))
    /\ [][calls' # calls
            => (eventMutex_' = eventMutex_ /\ eventQueue_' = eventQueue_)]_vars
    /\ [][(calls' # calls /\ isDestroyed_ /\ hostPc # "freed")
            => /\ discarded' = discarded + 1
               /\ UNCHANGED <<wrapperVars, cbVars, issued, pending>>]_vars
    /\ [][(calls' # calls /\ ~isDestroyed_ /\ hostPc # "freed")
            => /\ discarded' = discarded
               /\ \E t \in Producers :
                    /\ cbPc[t] = "idle"
                    /\ cbPc'[t] = "QueueEvent_lock"]_vars

C28_Witness ==
    /\ isDestroyed_
    /\ hostPc # "freed"
    /\ eventMutex_ = "locked"
    /\ \E t \in Producers : cbPc[t] = "QueueEvent_push"
    /\ discarded >= 1

\* The threads that are inside a queue operation: a producer between the
\* lock and the unlock of QueueEvent, the consumer between those of
\* DrainEvents.
QueueUsers ==
    Cardinality({t \in Producers : cbPc[t] = "QueueEvent_push"})
        + (IF hostPc = "DrainEvents_loop" THEN 1 ELSE 0)

\* C29: at most one thread is inside a queue operation, the mutex is held
\* exactly while one is, and every step that appends to or removes from the
\* queue is taken by that thread with the mutex held.
C29_QueueUnderMutex ==
    /\ [](QueueUsers <= 1)
    /\ [](QueueUsers = 1 <=> eventMutex_ = "locked")
    /\ [][eventQueue_' # eventQueue_
            => (eventMutex_ = "locked" /\ QueueUsers = 1)]_vars

C29_Witness ==
    /\ eventMutex_ = "locked"
    /\ hostPc = "DrainEvents_loop"
    /\ events # <<>>
    /\ Cardinality({t \in Producers : cbPc[t] = "QueueEvent_lock"})
          = NumProducers

\* C30: a callback that has entered QueueEvent returns, whether or not the
\* consumer drains again; a drain that has begun returns; whenever the
\* consumer is free to drain, the mutex becomes free for it; and start, stop
\* and isRunning can run while a producer holds the mutex and leave the mutex
\* as it is.
C30_NoWaiting ==
    /\ \A t \in Producers : (cbPc[t] # "idle") ~> (cbPc[t] = "idle")
    /\ (hostPc = "DrainEvents_loop") ~> (hostPc = "idle")
    /\ (hostPc = "idle") ~> (hostPc # "idle" \/ eventMutex_ = "unlocked")
    /\ [](hostPc = "idle" =>
            /\ ENABLED Start(TRUE, 0)
            /\ ENABLED Stop(0)
            /\ ENABLED IsRunning)
    /\ [][(Start(TRUE, 0) \/ Stop(0) \/ IsRunning)
            => (eventMutex_' = eventMutex_ /\ cbPc' = cbPc)]_vars

C30_Witness ==
    /\ hostRet.op = "stop"
    /\ streamRunning = FALSE
    /\ eventMutex_ = "locked"
    /\ \E t \in Producers : cbPc[t] = "QueueEvent_push"
    /\ \E t \in Producers : cbPc[t] = "QueueEvent_lock"
    /\ accepted # <<>>

\* C31: with lifecycle types 0, 1, 2 from the session, every event the
\* bridge holds has a tag in 0..4 that names the callback that built it: 0
\* for OnData only, 4 for OnMetadata only, and the session's type + 1 (1, 2,
\* 3) for OnEvent; and every object a drain returns carries the tag of its
\* event.
C31_TagIdentifiesCallback ==
    /\ [](\A e \in HeldEvents :
            LET a == ArgsOf(e.id)
            IN  /\ e.type \in 0..4
                /\ e.type = 0 <=> a.callback = "OnData"
                /\ e.type = 4 <=> a.callback = "OnMetadata"
                /\ e.type \in 1..3 <=> a.callback = "OnEvent"
                /\ a.callback = "OnEvent" => e.type = a.eventType + 1)
    /\ [][(hostPc = "DrainEvents_loop" /\ hostPc' = "idle") =>
            \A i \in 1..Len(events) :
                /\ hostRet'.val[i].type = events[i].type
                /\ hostRet'.val[i].type \in 0..4
                /\ hostRet'.val[i].type = 4
                      <=> ArgsOf(events[i].id).callback = "OnMetadata"]_vars

C31_Witness ==
    /\ hostRet.op = "processEvents"
    /\ Len(hostRet.val) = 3
    /\ hostRet.val[1].type = 1
    /\ hostRet.val[2].type = 4
    /\ hostRet.val[3].type = 3

\* C32: a start without an options object throws the TypeError, returns
\* null and changes nothing else: not the session, the handle, the queue, the
\* position of any thread; a permission request without a callback function
\* throws the TypeError, returns undefined, allocates no context and no
\* thread-safe function, and its native callback is never invoked.
C32_TypeErrorOnly ==
    /\ [][\A status \in StatusCodes :
            Start(FALSE, status) =>
                /\ hostError' =
                      JsError("TypeError", <<"Options object expected">>)
                /\ hostRet' = [op |-> "start", val |-> "null"]
                /\ UNCHANGED <<wrapperVars, sessionVars, hostPc, events,
                               cbVars, historyVars, configVars,
                               facadeVars>>]_vars
    /\ [][\A r \in Requests :
            RequestPermission_Call(r, FALSE) =>
                /\ facadeError' =
                      JsError("TypeError", <<"Callback function expected">>)
                /\ facadeRet' =
                      [op |-> "requestPermission", val |-> "undefined"]
                /\ UNCHANGED <<bridgeVars, deviceVars, jsThread, contexts,
                               tsfns, native, hostCallbacks>>]_vars
    /\ [](\A r \in Requests :
            request[r].pc = "rejected" =>
                /\ contexts[r] = NoContext
                /\ tsfns[r] = NoTsfn
                /\ native[r] = NoNative
                /\ request[r].decision = "undecided"
                /\ ~ENABLED (\E granted \in BOOLEAN :
                                Collaborator_Report(r, granted)))

C32_Witness ==
    /\ hostError = JsError("TypeError", <<"Options object expected">>)
    /\ streamRunning
    /\ eventQueue_ # <<>>
    /\ request[1].pc = "returned"
    /\ request[1].decision = "granted"
    /\ request[2].pc = "rejected"
    /\ facadeError = JsError("TypeError", <<"Callback function expected">>)

\* The entries of an array option that are numbers, in order.
NumericItems(v) ==
    IF v.type = "array"
    THEN SelectSeq(v.items, LAMBDA x : x.type = "number")
    ELSE <<>>

\* The pointer and count forwarded for an array option: one int32 per
\* numeric entry in order, and a null pointer with count 0 when there is
\* none.
ForwardsList(list, v) ==
    /\ list.count = Len(NumericItems(v))
    /\ list.null = (NumericItems(v) = <<>>)
    /\ Len(list.data) = list.count
    /\ \A i \in 1..list.count : list.data[i] = Int32Value(NumericItems(v)[i])

\* C33: what a start call passed to the session is given field by field by
\* the options object: the option's value when it is present with the right
\* type, else the default (sampleRate 0, chunkDurationMs 200, mute false,
\* mono true, deviceId null, gain 1.0); mono is the negation of a boolean
\* stereo; the process lists hold the numeric entries only, and a list with
\* none is a null pointer with count 0.
C33_ConfigDefaults ==
    LET o == forwarded.arg.options
        c == forwarded.config
    IN  /\ forwarded.api # "none" =>
              /\ forwarded.arg.isObject
              /\ c.sampleRate = (IF o.sampleRate.type = "number"
                                   THEN o.sampleRate.num ELSE 0)
              /\ c.chunkDurationMs = (IF o.chunkDurationMs.type = "number"
                                        THEN o.chunkDurationMs.num
                                        ELSE 200000)
              /\ o.stereo.type = "boolean" => c.isMono = ~o.stereo.bool
              /\ o.stereo.type # "boolean" => c.isMono
        /\ forwarded.api = "start" =>
              /\ c.mute = (o.mute.type = "boolean" /\ o.mute.bool)
              /\ ForwardsList(c.includeProcesses, o.includeProcesses)
              /\ ForwardsList(c.excludeProcesses, o.excludeProcesses)
        /\ forwarded.api = "startMicrophone" =>
              /\ o.deviceId.type = "string" => c.deviceUID = o.deviceId.str
              /\ o.deviceId.type # "string" => c.deviceUID = NullPtr
              /\ c.gain = (IF o.gain.type = "number" THEN o.gain.num
                                                     ELSE 1000)

C33_Witness ==
    /\ forwarded.api = "start"
    /\ forwarded.arg.options.mute = JsString("true")
    /\ forwarded.arg.options.stereo = JsBoolean(TRUE)
    /\ forwarded.config.mute = FALSE
    /\ forwarded.config.isMono = FALSE
    /\ forwarded.config.chunkDurationMs = 200000
    /\ forwarded.config.includeProcesses.data = <<1234, 5678>>
    /\ forwarded.config.excludeProcesses = NullList
    /\ hostRet = [op |-> "start", val |-> "undefined"]


\* C34: a Windows session function given a null handle returns its failure
\* value (-1 from the two starts and from stop, false from is-running,
\* nothing from destroy) and leaves the capture object as it was; destroy
\* given a valid handle leaves the capture stopped and deleted, and never
\* deletes a capture that is still running.
C34_NullHandleFails ==
    /\ [][/\ \A status \in StatusCodes :
               /\ audio_start_system_audio(NoHandle, status)
                    => hostRet'.val = -1
               /\ audio_start_microphone(NoHandle, status)
                    => hostRet'.val = -1
               /\ audio_stop_Call(NoHandle, status) => hostRet'.val = -1
          /\ audio_is_running_Call(NoHandle) => hostRet'.val = FALSE
          /\ (\/ \E status \in StatusCodes :
                    \/ audio_start_system_audio(NoHandle, status)
                    \/ audio_start_microphone(NoHandle, status)
                    \/ audio_stop_Call(NoHandle, status)
              \/ audio_is_running_Call(NoHandle)
              \/ audio_destroy(NoHandle))
               => UNCHANGED <<sessionVars, historyVars>>
          /\ audio_destroy(TheSession)
               => /\ ~streamRunning'
                  /\ ~sessionAlive'
                  /\ deletedWhileRunning' = deletedWhileRunning]_vars
    /\ [](~deletedWhileRunning)

\* A running capture exists and destroy has just been called with a null
\* handle.
C34_Witness ==
    /\ hostRet = [op |-> "audio_destroy", val |-> NoHandle]
    /\ sessionAlive
    /\ streamRunning


\* A session whose process the call lists.
Qualifies(session) ==
    /\ session.got
    /\ session.active
    /\ session.control2
    /\ ~session.system
    /\ session.pidOk
    /\ session.pid # Pid0

ActivePidsOf(sessions) ==
    {DwordToInt32(sessions[i].pid) :
        i \in {j \in 1..Len(sessions) : Qualifies(sessions[j])}}

MicCalled == micResult.op = "mic_activity_get_active_processes"

\* The process ids returned are pairwise distinct and the three arrays have
\* one length.
MicArraysWellFormed ==
    LET out == micResult.out
    IN  /\ \A i, j \in 1..Len(out.pids.data) :
              out.pids.data[i] = out.pids.data[j] => i = j
        /\ Len(out.names.data) = Len(out.pids.data)
        /\ Len(out.bundleIds.data) = Len(out.pids.data)

\* The call failed, or found no active session.
MicNothingReturned ==
    \/ micResult.ret # 0
    \/ micResult.call.env.fails # "none"
    \/ ActivePidsOf(micResult.call.env.sessions) = {}

\* C35 as stated: the process ids returned are pairwise distinct, names and
\* bundleIds are as long as pids, and after every call that returns a
\* failure or finds no active session each output the caller passed is a
\* null pointer, the count 0.
C35_OutputsNullOnEveryFailure ==
    MicCalled =>
        /\ MicArraysWellFormed
        /\ MicNothingReturned =>
              /\ \A f \in {"pids", "names", "bundleIds"} :
                    micResult.call.args[f] => micResult.out[f] = MicNull
              /\ micResult.call.args.count => micResult.out.count = 0

\* C35, amended: the process ids returned are pairwise distinct, names and
\* bundleIds are as long as pids; a call given all four output pointers that
\* fails or finds no active session leaves null pointers and count 0, and
\* one that succeeds returns each listed process once with count the length
\* of the arrays; a call that lacks an output pointer returns -1 and writes
\* nothing, so the outputs it was given keep the values they had.
C35_OutputsNullAfterArgumentCheck ==
    MicCalled =>
        /\ MicArraysWellFormed
        /\ IF micResult.call.args = AllOutputs
             THEN IF MicNothingReturned
                    THEN micResult.out = ZeroedOutputs
                    ELSE /\ micResult.out.count = Len(micResult.out.pids.data)
                         /\ {micResult.out.pids.data[i] :
                                i \in 1..micResult.out.count}
                              = ActivePidsOf(micResult.call.env.sessions)
             ELSE /\ micResult.ret = -1
                  /\ micResult.out = micResult.call.prior

\* A process with two active sessions and another process are returned as
\* two entries.
C35_Witness ==
    /\ MicCalled
    /\ micResult.ret = 0
    /\ Len(micResult.call.env.sessions) = 3
    /\ \A i \in 1..3 : Qualifies(micResult.call.env.sessions[i])
    /\ micResult.call.env.sessions[1].pid = micResult.call.env.sessions[3].pid
    /\ micResult.out.count = 2


\* Thread t has just run EnsureComInitialized.
EnsuredOn(t) == ensureCalls'[t] = ensureCalls[t] + 1

\* CoInitializeEx has returned a success (S_OK or S_FALSE) on thread t.
ComSucceededOn(t) ==
    \E i \in 1..Len(coInitCalls[t]) :
        SUCCEEDED(coInitCalls[t][i]) \/ coInitCalls[t][i] = S_FALSE

\* C36: a thread's flag is true exactly when CoInitializeEx has succeeded or
\* reported already-initialized on that thread; once true it stays true and
\* no later EnsureComInitialized call on the thread calls CoInitializeEx; a
\* call on a thread whose flag is false calls CoInitializeEx once more, so a
\* failed attempt is retried; and a call on one thread leaves the flag and
\* the CoInitializeEx calls of every other thread as they were.
C36_ComInitIdempotent ==
    /\ [](\A t \in Threads : comInitialized[t] <=> ComSucceededOn(t))
    /\ [][\A t \in Threads :
            /\ comInitialized[t] =>
                  /\ comInitialized'[t]
                  /\ coInitCalls'[t] = coInitCalls[t]
            /\ (EnsuredOn(t) /\ ~comInitialized[t]) =>
                  /\ Len(coInitCalls'[t]) = Len(coInitCalls[t]) + 1
                  /\ comInitialized'[t] =
                        (coInitCalls'[t][Len(coInitCalls'[t])]
                            # RPC_E_CHANGED_MODE)
            /\ EnsuredOn(t) =>
                  \A u \in Threads \ {t} :
                      /\ comInitialized'[u] = comInitialized[u]
                      /\ coInitCalls'[u] = coInitCalls[u]
                      /\ ensureCalls'[u] = ensureCalls[u]]_vars

\* Thread 1 failed once, retried with success and was ensured a third time
\* without a further CoInitializeEx call, while thread 2 has only failed.
C36_Witness ==
    /\ ensureCalls[1] = 3
    /\ coInitCalls[1] = <<RPC_E_CHANGED_MODE, S_FALSE>>
    /\ comInitialized[1]
    /\ coInitCalls[2] = <<RPC_E_CHANGED_MODE>>
    /\ ~comInitialized[2]

====
